---- MODULE Spec2Model ----
(***************************************************************************)
(* A model of smuthi's multipole field-expansion algebra                   *)
(* (smuthi/field_expansion.py), of the block layout of its system          *)
(* matrices (smuthi/linear_system.py) and of its parameter-selection       *)
(* driver (smuthi/utility/automatic_parameter_selection.py).               *)
(*                                                                         *)
(* Six machines share the module;  each specification runs one of them     *)
(* and leaves the variables of the others at rest:                         *)
(*   SpecIndex   walks the coefficients of one expansion in index order,   *)
(*   Spec        builds, adds and converts wave expansions,                *)
(*   SpecSystem  builds a SystemMatrix and asks it for blocks and indices, *)
(*   SpecLinear  builds a LinearSystem, applies its operators and solves,  *)
(*   SpecCalls   calls a wave function or a translation operator once,     *)
(*   SpecDriver  runs a convergence function of the driver on a simulation.*)
(*                                                                         *)
(* Numbers: wavenumbers, sample values, heights and coefficients are       *)
(* integers.  The values a conversion integrates (special functions) are   *)
(* not modelled; which coefficient positions are written, and every tag,   *)
(* shape and interval, is.                                                 *)
(***************************************************************************)
EXTENDS Integers, Sequences, FiniteSets, TLC

VARIABLES
    cutoffs,        \* SpecIndex: <<l_max, m_max>> of the expansion walked
    triple,         \* SpecIndex: the multipole index <<tau, l, m>> just visited
    visited,        \* SpecIndex: the single indices computed so far, in order
    opA, opB, opC,  \* Spec: the expansions the program holds
    result,         \* Spec: the last call, its arguments and its outcome
    particle_list,  \* SpecSystem: the particles (their cutoffs)
    shape,          \* SpecSystem: SystemMatrix.shape, <<>> before construction
    ret,            \* SpecSystem, SpecLinear, SpecCalls, SpecDriver: the last
                    \*             call and what it returned
    linear_system,  \* SpecLinear: the LinearSystem object, once constructed
    args            \* SpecLinear: the constructor arguments and what the
                    \*             collaborators (coupling blocks) provide;
                    \* SpecCalls, SpecDriver: the arguments of the call

indexVars == <<cutoffs, triple, visited>>
expVars == <<opA, opB, opC, result>>
sysVars == <<particle_list, shape, ret>>
linVars == <<linear_system, args>>
vars == <<cutoffs, triple, visited, opA, opB, opC, result, particle_list, shape, ret,
          linear_system, args>>

(***************************************************************************)
(* Bounds of the model.                                                    *)
(***************************************************************************)
MaxLmax == 4            \* SpecIndex: l_max ranges over 1 .. MaxLmax

(***************************************************************************)
(* Python built-ins used by the code.                                      *)
(***************************************************************************)
min(x, y) == IF x <= y THEN x ELSE y
max(x, y) == IF x >= y THEN x ELSE y
abs(x) == IF x < 0 THEN -x ELSE x

(***************************************************************************)
(* Index Mapper: field_expansion.multi_to_single_index and blocksize.      *)
(***************************************************************************)

\* A plausible slip: the in-row offset forgets the m_max cap of the row.
multi_to_single_index_nocap(tau, l, m, l_max, m_max) ==
    LET tau_blocksize == m_max * (m_max + 2) + (l_max - m_max) * (2 * m_max + 1)
        n0 == tau * tau_blocksize
        n1 == IF (l - 1) <= m_max
                 THEN n0 + (l - 1) * (l - 1 + 2)
                 ELSE n0 + m_max * (m_max + 2) + (l - 1 - m_max) * (2 * m_max + 1)
    IN  n1 + m + l

\* A plausible slip: the rows below l are all counted with their full width.
multi_to_single_index_fullrows(tau, l, m, l_max, m_max) ==
    LET tau_blocksize == m_max * (m_max + 2) + (l_max - m_max) * (2 * m_max + 1)
        n0 == tau * tau_blocksize
        n1 == n0 + (l - 1) * (l - 1 + 2)
    IN  n1 + m + min(l, m_max)

multi_to_single_index(tau, l, m, l_max, m_max) ==
    LET tau_blocksize == m_max * (m_max + 2) + (l_max - m_max) * (2 * m_max + 1)
        n0 == tau * tau_blocksize
        n1 == IF (l - 1) <= m_max
                 THEN n0 + (l - 1) * (l - 1 + 2)
                 ELSE n0 + m_max * (m_max + 2) + (l - 1 - m_max) * (2 * m_max + 1)
    IN  n1 + m + min(l, m_max)

blocksize(l_max, m_max) ==
    multi_to_single_index(1, l_max, m_max, l_max, m_max) + 1

\* The multipole indices of an expansion with cutoffs (l_max, m_max):
\* tau in {0,1}, l in 1..l_max, m in -min(l,m_max)..min(l,m_max).
ValidTriples(l_max, m_max) ==
    {t \in (0 .. 1) \X (1 .. l_max) \X ((-m_max) .. m_max) :
        abs(t[3]) <= min(t[2], m_max)}

\* The order of the index table: tau outer, then l, then m.
FirstTriple(l_max, m_max) == <<0, 1, -min(1, m_max)>>
LastTriple(l_max, m_max) == <<1, l_max, m_max>>
NextTriple(t, l_max, m_max) ==
    IF t[3] < min(t[2], m_max) THEN <<t[1], t[2], t[3] + 1>>
    ELSE IF t[2] < l_max THEN <<t[1], t[2] + 1, -min(t[2] + 1, m_max)>>
    ELSE <<t[1] + 1, 1, -min(1, m_max)>>

NoTriple == <<>>

(***************************************************************************)
(* SpecIndex: compute the single index of every coefficient, in table      *)
(* order.                                                                  *)
(***************************************************************************)
IndexCutoffs == {c \in (1 .. MaxLmax) \X (0 .. MaxLmax) : c[2] <= c[1]}

ExpIdle ==
    /\ opA = [cls |-> "None"] /\ opB = [cls |-> "None"] /\ opC = [cls |-> "None"]
    /\ result = [op |-> "none"]
SysIdle ==
    /\ particle_list = <<>> /\ shape = <<>> /\ ret = [op |-> "none"]
IndexIdle ==
    /\ cutoffs = <<1, 1>> /\ triple = NoTriple /\ visited = <<>>
LinIdle ==
    /\ linear_system = [cls |-> "None"] /\ args = <<>>

InitIndex ==
    /\ cutoffs \in IndexCutoffs
    /\ triple = NoTriple
    /\ visited = <<>>
    /\ ExpIdle /\ SysIdle /\ LinIdle

\* The first coefficient of the table.
VisitFirst ==
    /\ triple = NoTriple /\ visited = <<>>
    /\ triple' = FirstTriple(cutoffs[1], cutoffs[2])
    /\ visited' = <<multi_to_single_index(triple'[1], triple'[2], triple'[3],
                                          cutoffs[1], cutoffs[2])>>
    /\ UNCHANGED <<cutoffs, opA, opB, opC, result, particle_list, shape, ret,
                 linear_system, args>>

\* The coefficient after the one just visited.
VisitNext ==
    /\ triple # NoTriple
    /\ triple # LastTriple(cutoffs[1], cutoffs[2])
    /\ triple' = NextTriple(triple, cutoffs[1], cutoffs[2])
    /\ visited' = Append(visited,
                         multi_to_single_index(triple'[1], triple'[2], triple'[3],
                                               cutoffs[1], cutoffs[2]))
    /\ UNCHANGED <<cutoffs, opA, opB, opC, result, particle_list, shape, ret,
                 linear_system, args>>

NextIndex == VisitFirst \/ VisitNext

SpecIndex == InitIndex /\ [][NextIndex]_vars

WalkDone == triple # NoTriple /\ triple = LastTriple(cutoffs[1], cutoffs[2])

SeqToSet(s) == {s[i] : i \in 1 .. Len(s)}

(***************************************************************************)
(* C1: for the cutoffs of the expansion (l_max >= 1, 0 <= m_max <= l_max), *)
(* multi_to_single_index maps the valid triples one-to-one onto            *)
(* 0 .. blocksize - 1: no two coefficients of the walk share an index,     *)
(* every index lies in the block, and at the end of the walk every index   *)
(* of the block has been hit and blocksize is the number of valid triples. *)
(***************************************************************************)
C1_IndexBijection ==
    LET l_max == cutoffs[1]
        m_max == cutoffs[2]
        valid == ValidTriples(l_max, m_max)
        idx(t) == multi_to_single_index(t[1], t[2], t[3], l_max, m_max)
    IN  /\ \A t1, t2 \in valid : idx(t1) = idx(t2) => t1 = t2
        /\ {idx(t) : t \in valid} = 0 .. (blocksize(l_max, m_max) - 1)
        /\ Cardinality(valid) = blocksize(l_max, m_max)
        /\ \A i, j \in 1 .. Len(visited) : visited[i] = visited[j] => i = j
        /\ triple # NoTriple => triple \in valid
        /\ WalkDone => SeqToSet(visited) = 0 .. (blocksize(l_max, m_max) - 1)

\* A ragged block (m_max < l_max, rows of different width) walked to its end.
C1_Witness ==
    /\ WalkDone
    /\ 0 < cutoffs[2] /\ cutoffs[2] + 1 < cutoffs[1]
    /\ Len(visited) = Cardinality(ValidTriples(cutoffs[1], cutoffs[2]))

(***************************************************************************)
(* C2: in table order (tau outer, then l, then m) the index starts at 0    *)
(* for the first triple, grows by exactly one from each triple to the      *)
(* next, and is blocksize - 1 at the last triple (1, l_max, m_max).        *)
(***************************************************************************)
C2_IndexMonotonic ==
    /\ \A i \in 1 .. Len(visited) : visited[i] = i - 1
    /\ Len(visited) = 1 => triple = <<0, 1, -min(1, cutoffs[2])>>
    /\ WalkDone => /\ triple = <<1, cutoffs[1], cutoffs[2]>>
                   /\ visited[Len(visited)] = blocksize(cutoffs[1], cutoffs[2]) - 1
                   /\ Len(visited) = blocksize(cutoffs[1], cutoffs[2])

\* The walk has passed from tau = 0 into tau = 1 and into a capped row.
C2_Witness ==
    /\ triple # NoTriple
    /\ triple[1] = 1 /\ triple[2] > cutoffs[2] + 1 /\ cutoffs[2] > 0
    /\ Len(visited) > 1
    /\ visited[Len(visited)] = visited[Len(visited) - 1] + 1

(***************************************************************************)
(* Values shared by the wave expansions.                                   *)
(***************************************************************************)
None == <<>>                    \* Python's None, for an optional tuple or int
NoneObj == [cls |-> "None"]     \* Python's None, where an object is expected
NoExc == "none"                 \* the call returned

SweInconsistent == "ValueError: SphericalWaveExpansions are inconsistent."
PweInconsistent == "ValueError: Plane wave expansion are inconsistent."
DomainError == "ValueError: reference point not inside domain of pwe validity"
NoneNotIterable == "TypeError: 'NoneType' object is not iterable"
SetElementError == "ValueError: setting an array element with a sequence."
\* all(a == b) on arrays whose shapes do not broadcast: numpy before 1.25
\* evaluates a == b to False and all(False) raises; later versions raise
\* in the comparison itself.
NumpyShapeErrors == {"TypeError: 'bool' object is not iterable",
                     "ValueError: operands could not be broadcast together"}

\* What a call did: the exception raised (NoExc if none), the value
\* returned (NoneObj if it raised), and the objects it constructed.
Outcome(exc, val, made) == [exc |-> exc, val |-> val, made |-> made]

\* min(t) and max(t) of a 2-tuple.
tuple_min(t) == min(t[1], t[2])
tuple_max(t) == max(t[1], t[2])

\* np.zeros(n) and np.zeros((n1, n2, n3)).
zeros(n) == [i \in 1 .. n |-> 0]
zeros3(n1, n2, n3) == [p \in 1 .. n1 |-> [j \in 1 .. n2 |-> [a \in 1 .. n3 |-> 0]]]
array_shape(arr) == <<Len(arr), Len(arr[1]), Len(arr[1][1])>>

(***************************************************************************)
(* SphericalWaveExpansion.                                                 *)
(***************************************************************************)

\* __init__: m_max is None or <<an int>>; "if m_max:" is Python truthiness.
SphericalWaveExpansion(k, l_max, m_max, type, reference_point, valid_between) ==
    LET truthy == m_max # None /\ m_max[1] # 0
        stored_m_max == IF truthy THEN m_max[1] ELSE l_max
    IN  [cls |-> "SWE", k |-> k, l_max |-> l_max, m_max |-> stored_m_max,
         coefficients |-> zeros(blocksize(l_max, stored_m_max)),
         type |-> type, reference_point |-> reference_point,
         valid_between |-> valid_between]

\* A plausible slip: the order cutoff is left out of the comparison.
swe_consistent_no_m_max(self, other) ==
    /\ self.k = other.k /\ self.l_max = other.l_max
    /\ self.type = other.type /\ self.reference_point = other.reference_point

\* The condition of __add__.
swe_consistent(self, other) ==
    /\ self.k = other.k /\ self.l_max = other.l_max /\ self.m_max = other.m_max
    /\ self.type = other.type /\ self.reference_point = other.reference_point

\* A plausible slip: the union of the intervals instead of the intersection.
valid_between_sum_union(vb1, vb2) ==
    <<min(tuple_min(vb1), tuple_min(vb2)), max(tuple_max(vb1), tuple_max(vb2))>>

\* The validity interval of a sum, from those of the operands.
valid_between_sum(vb1, vb2) ==
    <<max(tuple_min(vb1), tuple_min(vb2)), min(tuple_max(vb1), tuple_max(vb2))>>

\* self.coefficients + other.coefficients for vectors of one length.
vector_add(u, v) == [i \in 1 .. Len(u) |-> u[i] + v[i]]

\* __add__ of SphericalWaveExpansion.
swe_add(self, other) ==
    IF ~swe_consistent(self, other)
    THEN Outcome(SweInconsistent, NoneObj, <<>>)
    ELSE
      LET swe_sum == SphericalWaveExpansion(self.k, self.l_max, <<self.m_max>>, self.type,
                                            self.reference_point, None)
          coeff == vector_add(self.coefficients, other.coefficients)
      IN  IF self.valid_between # None
          THEN IF other.valid_between = None
               THEN Outcome(NoneNotIterable, NoneObj, <<swe_sum>>)
               ELSE Outcome(NoExc,
                            [swe_sum EXCEPT
                               !.valid_between = valid_between_sum(self.valid_between,
                                                                   other.valid_between),
                               !.coefficients = coeff],
                            <<swe_sum>>)
          ELSE Outcome(NoExc, [swe_sum EXCEPT !.coefficients = coeff], <<swe_sum>>)

(***************************************************************************)
(* PlaneWaveExpansion.                                                     *)
(***************************************************************************)

\* An argument that is a scalar or a sequence: [scalar |-> x] or
\* [array |-> <<...>>]; hasattr(arg, '__len__') tells them apart.
hasattr_len(arg) == "array" \in DOMAIN arg

\* __init__.
PlaneWaveExpansion(k, k_parallel, azimuthal_angles, type, reference_point, valid_between) ==
    LET kp == IF hasattr_len(k_parallel) THEN k_parallel.array ELSE <<k_parallel.scalar>>
        az == IF hasattr_len(azimuthal_angles) THEN azimuthal_angles.array
              ELSE <<azimuthal_angles.scalar>>
    IN  [cls |-> "PWE", k |-> k, k_parallel |-> kp, azimuthal_angles |-> az,
         type |-> type, reference_point |-> reference_point,
         valid_between |-> valid_between,
         coefficients |-> zeros3(2, Len(kp), Len(az))]

\* all(u == v) for numpy vectors u, v: "True", "False", or "raise" when the
\* shapes do not broadcast.  A length-1 vector broadcasts against any other.
np_all_equal(u, v) ==
    IF Len(u) = Len(v)
    THEN IF \A i \in 1 .. Len(u) : u[i] = v[i] THEN "True" ELSE "False"
    ELSE IF Len(u) = 1
    THEN IF \A i \in 1 .. Len(v) : u[1] = v[i] THEN "True" ELSE "False"
    ELSE IF Len(v) = 1
    THEN IF \A i \in 1 .. Len(u) : u[i] = v[1] THEN "True" ELSE "False"
    ELSE "raise"

\* x + y for numpy arrays of shapes (2, n, a) whose axes broadcast.
broadcast_add(x, y) ==
    LET nk == max(Len(x[1]), Len(y[1]))
        na == max(Len(x[1][1]), Len(y[1][1]))
        at(arr, p, j, a) == arr[p][IF Len(arr[1]) = 1 THEN 1 ELSE j]
                                  [IF Len(arr[1][1]) = 1 THEN 1 ELSE a]
    IN  [p \in 1 .. 2 |-> [j \in 1 .. nk |-> [a \in 1 .. na |->
            at(x, p, j, a) + at(y, p, j, a)]]]

\* __add__ of PlaneWaveExpansion; the "and" chain of its condition is
\* evaluated left to right and stops at the first false operand.  np_err is
\* the exception this numpy raises for shapes that do not broadcast.
pwe_add(self, other, np_err) ==
    LET kp_eq == np_all_equal(self.k_parallel, other.k_parallel)
        az_eq == np_all_equal(self.azimuthal_angles, other.azimuthal_angles)
        pwe_sum == PlaneWaveExpansion(self.k, [array |-> self.k_parallel],
                                      [array |-> self.azimuthal_angles], self.type,
                                      self.reference_point, None)
    IN  IF self.k # other.k THEN Outcome(PweInconsistent, NoneObj, <<>>)
        ELSE IF kp_eq = "raise" THEN Outcome(np_err, NoneObj, <<>>)
        ELSE IF kp_eq = "False" THEN Outcome(PweInconsistent, NoneObj, <<>>)
        ELSE IF az_eq = "raise" THEN Outcome(np_err, NoneObj, <<>>)
        ELSE IF az_eq = "False" THEN Outcome(PweInconsistent, NoneObj, <<>>)
        ELSE IF self.type # other.type \/ self.reference_point # other.reference_point
        THEN Outcome(PweInconsistent, NoneObj, <<>>)
        ELSE IF self.valid_between = None \/ other.valid_between = None
        THEN Outcome(NoneNotIterable, NoneObj, <<pwe_sum>>)
        ELSE Outcome(NoExc,
                     [pwe_sum EXCEPT
                        !.valid_between = valid_between_sum(self.valid_between,
                                                            other.valid_between),
                        !.coefficients = broadcast_add(self.coefficients,
                                                       other.coefficients)],
                     <<pwe_sum>>)

\* a + b: Python calls the __add__ of the left operand's class.
py_add(x, y, np_err) ==
    IF x.cls = "SWE" THEN swe_add(x, y) ELSE pwe_add(x, y, np_err)

(***************************************************************************)
(* Conversions between plane and spherical wave expansions.                *)
(***************************************************************************)

\* Stands for a coefficient computed from the transformation coefficients
\* (an integral or a sum of special functions), whose value is not modelled.
Computed == 1

\* np.inf, of the default valid_between = (-np.inf, np.inf).
Infinity == 1000

\* A plausible slip: the bounds of the interval are rejected too.
reference_point_outside_strict(pwe, reference_point) ==
    \/ reference_point[3] <= tuple_min(pwe.valid_between)
    \/ reference_point[3] >= tuple_max(pwe.valid_between)

\* The condition that opens pwe_to_swe_conversion.
reference_point_outside(pwe, reference_point) ==
    \/ reference_point[3] < tuple_min(pwe.valid_between)
    \/ reference_point[3] > tuple_max(pwe.valid_between)

\* The <<tau, m, l>> of the loops of pwe_to_swe_conversion:
\* tau in range(2), m in range(-m_max, m_max + 1), l in range(max(1, |m|), l_max + 1).
conversion_loop(l_max, m_max) ==
    {t \in (0 .. 1) \X ((-m_max) .. m_max) \X (1 .. l_max) : t[3] >= max(1, abs(t[2]))}

pwe_to_swe_conversion(pwe, l_max, m_max, reference_point) ==
    IF pwe.valid_between = None THEN Outcome(NoneNotIterable, NoneObj, <<>>)
    ELSE IF reference_point_outside(pwe, reference_point)
    THEN Outcome(DomainError, NoneObj, <<>>)
    ELSE
      LET swe == SphericalWaveExpansion(pwe.k, l_max, <<m_max>>, "regular",
                                        reference_point, None)
          loop == conversion_loop(l_max, m_max)
          written == {multi_to_single_index(t[1], t[3], t[2], swe.l_max, swe.m_max) :
                        t \in loop}
          size == Len(swe.coefficients)
      IN  \* one k_parallel sample, several angles: "an" stays a vector
          IF loop # {} /\ Len(pwe.k_parallel) = 1 /\ Len(pwe.azimuthal_angles) > 1
          THEN Outcome(SetElementError, NoneObj, <<swe>>)
          ELSE IF \E n \in written : n >= size \/ n < -size
          THEN Outcome("IndexError", NoneObj, <<swe>>)
          ELSE Outcome(NoExc,
                       [swe EXCEPT !.coefficients =
                           [i \in 1 .. size |->
                               IF (i - 1) \in written \/ (i - 1 - size) \in written
                               THEN Computed ELSE 0]],
                       <<swe>>)

\* A plausible slip: the two bounds of valid_between are exchanged.
up_valid_between_swapped(swe, valid_between) ==
    <<swe.reference_point[3], tuple_min(valid_between)>>

\* The validity of the up-going and of the down-going expansion.
up_valid_between(swe, valid_between) ==
    <<swe.reference_point[3], tuple_max(valid_between)>>
down_valid_between(swe, valid_between) ==
    <<tuple_min(valid_between), swe.reference_point[3]>>

swe_to_pwe_conversion(swe, k_parallel, azimuthal_angles, reference_point, valid_between) ==
    LET pwe_up == PlaneWaveExpansion(swe.k, k_parallel, azimuthal_angles, "upgoing",
                                     reference_point, up_valid_between(swe, valid_between))
        pwe_down == PlaneWaveExpansion(swe.k, k_parallel, azimuthal_angles, "downgoing",
                                       reference_point,
                                       down_valid_between(swe, valid_between))
        g(pwe) == [p \in 1 .. 2 |-> [j \in 1 .. Len(pwe.k_parallel) |->
                      [a \in 1 .. Len(pwe.azimuthal_angles) |-> Computed]]]
    IN  Outcome(NoExc,
                [cls |-> "pair",
                 up |-> [pwe_up EXCEPT !.coefficients = g(pwe_up)],
                 down |-> [pwe_down EXCEPT !.coefficients = g(pwe_down)]],
                <<pwe_up, pwe_down>>)

(***************************************************************************)
(* Spec: a program that holds up to three expansions, adds them and        *)
(* converts them.  It starts either with three operands already built and  *)
(* filled (all spherical or all plane), or with none.  One run makes one   *)
(* call on its operands, or one chain: a sum and a sum with that sum, a    *)
(* construction and a conversion of what was constructed.                  *)
(***************************************************************************)
MaxSweLmax == 2         \* expansions: l_max ranges over 1 .. MaxSweLmax
MaxZ == 3               \* heights range over 0 .. MaxZ
MaxSamples == 3         \* sample grids have 1 .. MaxSamples entries

Ks == {1, 2}
SweTypes == {"regular", "outgoing"}
PweTypes == {"upgoing", "downgoing"}
Heights == 0 .. MaxZ
RefPoint(z) == <<0, 0, z>>
Intervals == {<<0, 1>>, <<1, MaxZ>>, <<MaxZ - 1, MaxZ>>}
ValidBetweens == {None} \cup Intervals
\* <<l_max, m_max>> as passed to SphericalWaveExpansion: m_max may be None.
SweCutoffArgs ==
    {<<l, None>> : l \in 1 .. MaxSweLmax}
    \cup {<<c[1], <<c[2]>>>> : c \in {d \in (1 .. MaxSweLmax) \X (0 .. MaxSweLmax) : d[2] <= d[1]}}
\* <<l_max, m_max>> as passed to pwe_to_swe_conversion.
ConversionCutoffs == {d \in (1 .. MaxSweLmax) \X (0 .. MaxSweLmax) : d[2] <= d[1]}
\* Sample grids: a constant grid of every length, and one that is not constant.
KParallelGrids == {[i \in 1 .. n |-> 1] : n \in 1 .. MaxSamples} \cup {<<1, 2>>}
AzimuthalGrids == {<<0>>, <<0, 0>>}
KParallelArgs == {[scalar |-> 1]} \cup {[array |-> g] : g \in KParallelGrids}
AzimuthalArgs == {[scalar |-> 0]} \cup {[array |-> g] : g \in AzimuthalGrids}

\* An expansion as the program holds it: built, then given coefficients
\* (fill times the position, so that sums show which operands they hold).
SweOperand(k, cut, type, z, vb, fill) ==
    LET swe == SphericalWaveExpansion(k, cut[1], cut[2], type, RefPoint(z), vb)
    IN  [swe EXCEPT !.coefficients = [i \in 1 .. Len(swe.coefficients) |-> fill * i]]
PweOperand(k, kp, az, type, z, vb, fill) ==
    LET pwe == PlaneWaveExpansion(k, [array |-> kp], [array |-> az], type, RefPoint(z), vb)
    IN  [pwe EXCEPT !.coefficients =
            [p \in 1 .. 2 |-> [j \in 1 .. Len(kp) |-> [a \in 1 .. Len(az) |->
                fill * (100 * p + 10 * j + a)]]]]

InitSweOperands ==
    /\ opA \in {SweOperand(1, c, "regular", 0, vb, 1) :
                  c \in SweCutoffArgs, vb \in ValidBetweens}
    /\ opB \in {SweOperand(q[1], q[2], q[3], q[4], q[5], 2) :
                  q \in Ks \X SweCutoffArgs \X SweTypes \X {0, 1} \X ValidBetweens}
    /\ opC \in {[opA EXCEPT !.valid_between = vb,
                            !.coefficients = [i \in 1 .. Len(opA.coefficients) |-> 4 * i]] :
                  vb \in {None, <<0, MaxZ>>}}

InitPweOperands ==
    /\ opA \in {PweOperand(1, q[1], q[2], "upgoing", 0, q[3], 1) :
                  q \in KParallelGrids \X AzimuthalGrids \X ValidBetweens}
    /\ opB \in {PweOperand(q[1], q[2], q[3], q[4], q[5], q[6], 2) :
                  q \in Ks \X KParallelGrids \X AzimuthalGrids \X PweTypes \X {0, 1}
                        \X ValidBetweens}
    /\ opC \in {[opA EXCEPT !.valid_between = vb,
                            !.coefficients = broadcast_add(broadcast_add(@, @),
                                                           broadcast_add(@, @))] :
                  vb \in {None, <<0, MaxZ>>}}

InitNoOperands ==
    /\ opA = NoneObj /\ opB = NoneObj /\ opC = NoneObj

Init ==
    /\ IndexIdle /\ SysIdle /\ LinIdle
    /\ result = [op |-> "none"]
    /\ (InitSweOperands \/ InitPweOperands \/ InitNoOperands)

\* The record of a call x + y.
AddCall(expr, x, y, out) ==
    [op |-> "__add__", expr |-> expr, self |-> x, other |-> y,
     exc |-> out.exc, val |-> out.val, made |-> out.made]

\* a + b, b + a or b + c.
AddOperands ==
    /\ opA # NoneObj /\ result.op = "none"
    /\ \E e \in {"a+b", "b+a", "b+c"}, np_err \in NumpyShapeErrors :
         LET x == IF e = "a+b" THEN opA ELSE opB
             y == IF e = "a+b" THEN opB ELSE IF e = "b+a" THEN opA ELSE opC
         IN  result' = AddCall(e, x, y, py_add(x, y, np_err))
    /\ UNCHANGED <<opA, opB, opC, cutoffs, triple, visited, particle_list, shape, ret,
                 linear_system, args>>

\* (a + b) + c, once a + b has returned.
AddSumAndOperand ==
    /\ result.op = "__add__" /\ result.expr = "a+b" /\ result.exc = NoExc
    /\ \E np_err \in NumpyShapeErrors :
         result' = AddCall("(a+b)+c", result.val, opC, py_add(result.val, opC, np_err))
    /\ UNCHANGED <<opA, opB, opC, cutoffs, triple, visited, particle_list, shape, ret,
                 linear_system, args>>

\* a + (b + c), once b + c has returned.
AddOperandAndSum ==
    /\ result.op = "__add__" /\ result.expr = "b+c" /\ result.exc = NoExc
    /\ \E np_err \in NumpyShapeErrors :
         result' = AddCall("a+(b+c)", opA, result.val, py_add(opA, result.val, np_err))
    /\ UNCHANGED <<opA, opB, opC, cutoffs, triple, visited, particle_list, shape, ret,
                 linear_system, args>>

\* b = SphericalWaveExpansion(...), in a program that holds no expansion yet.
NewSWE ==
    /\ opA = NoneObj /\ opB = NoneObj
    /\ \E k \in Ks, c \in SweCutoffArgs, type \in SweTypes, z \in Heights,
          vb \in ValidBetweens :
         LET swe == SphericalWaveExpansion(k, c[1], c[2], type, RefPoint(z), vb)
         IN  /\ opB' = swe
             /\ result' = [op |-> "SphericalWaveExpansion",
                           args |-> [l_max |-> c[1], m_max |-> c[2]],
                           exc |-> NoExc, val |-> swe, made |-> <<swe>>]
    /\ UNCHANGED <<opA, opC, cutoffs, triple, visited, particle_list, shape, ret,
                 linear_system, args>>

\* b = PlaneWaveExpansion(...), in a program that holds no expansion yet.
NewPWE ==
    /\ opA = NoneObj /\ opB = NoneObj
    /\ \E k \in Ks, kp \in KParallelArgs, az \in AzimuthalArgs, type \in PweTypes,
          z \in {0, 1}, vb \in ValidBetweens \cup {<<MaxZ, 1>>} :
         LET pwe == PlaneWaveExpansion(k, kp, az, type, RefPoint(z), vb)
         IN  /\ opB' = pwe
             /\ result' = [op |-> "PlaneWaveExpansion",
                           args |-> [k_parallel |-> kp, azimuthal_angles |-> az],
                           exc |-> NoExc, val |-> pwe, made |-> <<pwe>>]
    /\ UNCHANGED <<opA, opC, cutoffs, triple, visited, particle_list, shape, ret,
                 linear_system, args>>

\* pwe_to_swe_conversion(b, l_max, m_max, reference_point).
PweToSwe ==
    /\ opA = NoneObj /\ opB.cls = "PWE" /\ result.op = "PlaneWaveExpansion"
    /\ \E c \in ConversionCutoffs, z \in Heights :
         LET out == pwe_to_swe_conversion(opB, c[1], c[2], RefPoint(z))
         IN  result' = [op |-> "pwe_to_swe_conversion",
                        args |-> [pwe |-> opB, l_max |-> c[1], m_max |-> <<c[2]>>,
                                  reference_point |-> RefPoint(z)],
                        exc |-> out.exc, val |-> out.val, made |-> out.made]
    /\ UNCHANGED <<opA, opB, opC, cutoffs, triple, visited, particle_list, shape, ret,
                 linear_system, args>>

\* pwe_to_swe_conversion(a + b, l_max, m_max, reference_point), once a + b has
\* returned a plane wave expansion whose coefficients have the shape of its
\* grids.
SumConversionCutoffs == {<<1, 1>>}
PweSumToSwe ==
    /\ result.op = "__add__" /\ result.expr = "a+b" /\ result.exc = NoExc
    /\ result.val.cls = "PWE"
    /\ Len(opA.k_parallel) = Len(opB.k_parallel)
    /\ Len(opA.azimuthal_angles) = Len(opB.azimuthal_angles)
    /\ \E c \in SumConversionCutoffs, z \in Heights :
         LET out == pwe_to_swe_conversion(result.val, c[1], c[2], RefPoint(z))
         IN  result' = [op |-> "pwe_to_swe_conversion", expr |-> "a+b",
                        args |-> [pwe |-> result.val, l_max |-> c[1], m_max |-> <<c[2]>>,
                                  reference_point |-> RefPoint(z)],
                        exc |-> out.exc, val |-> out.val, made |-> out.made]
    /\ UNCHANGED <<opA, opB, opC, cutoffs, triple, visited, particle_list, shape, ret,
                 linear_system, args>>

\* swe_to_pwe_conversion(b, k_parallel, azimuthal_angles, reference_point, valid_between).
SweToPwe ==
    /\ opA = NoneObj /\ opB.cls = "SWE" /\ result.op = "SphericalWaveExpansion"
    /\ \E kp \in {[scalar |-> 1], [array |-> <<1>>], [array |-> <<1, 2>>]},
          az \in {[scalar |-> 0], [array |-> <<0, 0>>]},
          z \in {0, MaxZ},
          vb \in {<<-Infinity, Infinity>>, <<0, MaxZ>>, <<MaxZ, 1>>} :
         LET out == swe_to_pwe_conversion(opB, kp, az, RefPoint(z), vb)
         IN  result' = [op |-> "swe_to_pwe_conversion",
                        args |-> [swe |-> opB, k_parallel |-> kp, azimuthal_angles |-> az,
                                  reference_point |-> RefPoint(z), valid_between |-> vb],
                        exc |-> out.exc, val |-> out.val, made |-> out.made]
    /\ UNCHANGED <<opA, opB, opC, cutoffs, triple, visited, particle_list, shape, ret,
                 linear_system, args>>

Next ==
    \/ AddOperands \/ AddSumAndOperand \/ AddOperandAndSum
    \/ NewSWE \/ NewPWE \/ PweToSwe \/ PweSumToSwe \/ SweToPwe

Spec == Init /\ [][Next]_vars

(***************************************************************************)
(* What the claims speak of.                                               *)
(***************************************************************************)
IsAdd(cls) == result.op = "__add__" /\ result.self.cls = cls

\* Operands that agree in every tag (and, for plane waves, in both grids).
SameTags(x, y) ==
    /\ x.cls = y.cls /\ x.k = y.k /\ x.type = y.type
    /\ x.reference_point = y.reference_point
    /\ x.cls = "SWE" => (x.l_max = y.l_max /\ x.m_max = y.m_max)
    /\ x.cls = "PWE" => (x.k_parallel = y.k_parallel
                         /\ x.azimuthal_angles = y.azimuthal_angles)

\* An interval given as <<lower, upper>>.
Ordered(vb) == vb # None /\ vb[1] <= vb[2]
Inside(z, vb) == vb[1] <= z /\ z <= vb[2]

\* The sum of the coefficients, entry by entry.
EntrywiseSum(cls, x, y, sum) ==
    IF cls = "SWE"
    THEN /\ Len(sum) = Len(x) /\ Len(sum) = Len(y)
         /\ \A i \in 1 .. Len(sum) : sum[i] = x[i] + y[i]
    ELSE /\ array_shape(sum) = array_shape(x) /\ array_shape(sum) = array_shape(y)
         /\ \A p \in 1 .. 2 : \A j \in 1 .. Len(sum[1]) : \A a \in 1 .. Len(sum[1][1]) :
               sum[p][j][a] = x[p][j][a] + y[p][j][a]

(***************************************************************************)
(* C3: every SphericalWaveExpansion created for requested cutoffs          *)
(* (l_max, m_max), 0 <= m_max <= l_max, by the constructor, by an addition *)
(* or by pwe_to_swe_conversion, stores exactly l_max and m_max and has     *)
(* blocksize(l_max, m_max) coefficients; m_max = 0 is stored as 0.         *)
(***************************************************************************)
C3_StoresRequestedCutoffs ==
    LET Requested ==
          IF result.op = "SphericalWaveExpansion" /\ result.args.m_max # None
            THEN {<<result.args.l_max, result.args.m_max[1]>>}
          ELSE IF IsAdd("SWE")
            THEN {<<result.self.l_max, result.self.m_max>>}
          ELSE IF result.op = "pwe_to_swe_conversion"
            THEN {<<result.args.l_max, result.args.m_max[1]>>}
          ELSE {}
        Created == {result.made[i] : i \in 1 .. Len(result.made)}
                   \cup (IF result.exc = NoExc THEN {result.val} ELSE {})
    IN  result.op # "none" =>
          \A req \in Requested : \A swe \in Created :
              /\ swe.l_max = req[1]
              /\ swe.m_max = req[2]
              /\ Len(swe.coefficients) = blocksize(req[1], req[2])

(***************************************************************************)
(* C4: adding two SphericalWaveExpansions that differ in k, l_max, m_max,  *)
(* type or reference_point raises the inconsistent-operand error: no sum   *)
(* is constructed or returned, and the operands are as they were.          *)
(***************************************************************************)
C4_SweAddRejectsInconsistent ==
    (/\ IsAdd("SWE")
     /\ \/ result.self.k # result.other.k
        \/ result.self.l_max # result.other.l_max
        \/ result.self.m_max # result.other.m_max
        \/ result.self.type # result.other.type
        \/ result.self.reference_point # result.other.reference_point)
    => /\ result.exc = SweInconsistent
       /\ result.val = NoneObj
       /\ result.made = <<>>
       /\ result.expr = "a+b" => (result.self = opA /\ result.other = opB)
       /\ result.expr = "b+a" => (result.self = opB /\ result.other = opA)
       /\ result.expr = "b+c" => (result.self = opB /\ result.other = opC)

\* Two spherical expansions that differ in nothing but the order cutoff.
C4_Witness ==
    /\ IsAdd("SWE")
    /\ result.self.m_max # result.other.m_max
    /\ result.self.k = result.other.k /\ result.self.l_max = result.other.l_max
    /\ result.self.type = result.other.type
    /\ result.self.reference_point = result.other.reference_point
    /\ result.exc = SweInconsistent

(***************************************************************************)
(* C5: adding two PlaneWaveExpansions fails whenever they differ in k, in  *)
(* the k_parallel or the azimuthal-angle sequence (length or any value),   *)
(* in type or in reference_point; so every sum returned has a coefficient  *)
(* array of shape (2, len(k_parallel), len(azimuthal_angles)).             *)
(***************************************************************************)
C5_PweAddRejectsMismatch ==
    IsAdd("PWE") =>
      /\ ~SameTags(result.self, result.other) => result.exc # NoExc
      /\ result.exc = NoExc =>
           array_shape(result.val.coefficients)
             = <<2, Len(result.val.k_parallel), Len(result.val.azimuthal_angles)>>

(***************************************************************************)
(* C6: for consistent operands that both carry an interval                 *)
(* <<lower, upper>>, the sum of two spherical and of two plane wave        *)
(* expansions is valid on the intersection of the operands' intervals,     *)
(* <<max of the lower bounds, min of the upper bounds>>, and its           *)
(* coefficients are the entrywise sum of the operands' coefficients.       *)
(***************************************************************************)
C6_SumIntervalAndCoefficients ==
    (/\ result.op = "__add__"
     /\ SameTags(result.self, result.other)
     /\ Ordered(result.self.valid_between) /\ Ordered(result.other.valid_between))
    => LET v1 == result.self.valid_between
           v2 == result.other.valid_between
       IN  /\ result.exc = NoExc
           /\ result.val.valid_between
                = <<IF v1[1] >= v2[1] THEN v1[1] ELSE v2[1],
                    IF v1[2] <= v2[2] THEN v1[2] ELSE v2[2]>>
           /\ \A z \in (-1) .. (MaxZ + 1) :
                 Inside(z, result.val.valid_between) <=> (Inside(z, v1) /\ Inside(z, v2))
           /\ EntrywiseSum(result.self.cls, result.self.coefficients,
                           result.other.coefficients, result.val.coefficients)

(***************************************************************************)
(* C7: addition is commutative and associative for consistent operands,    *)
(* each with or without a validity interval: a + b and b + a have the same *)
(* outcome, and (a + b) + c the same as a + (b + c).                       *)
(***************************************************************************)
AddOutcome(x, y) == py_add(x, y, CHOOSE e \in NumpyShapeErrors : TRUE)

C7_AddCommutes ==
    (result.op = "__add__" /\ result.expr = "a+b" /\ SameTags(opA, opB))
    => LET ba == AddOutcome(opB, opA)
       IN  /\ (result.exc = NoExc) <=> (ba.exc = NoExc)
           /\ result.val = ba.val

C7_AddAssociates ==
    (/\ result.op = "__add__" /\ result.expr = "(a+b)+c"
     /\ SameTags(opA, opB) /\ SameTags(opB, opC))
    => LET bc == AddOutcome(opB, opC)
           a_bc == AddOutcome(opA, bc.val)
       IN  /\ bc.exc = NoExc
           /\ (result.exc = NoExc) <=> (a_bc.exc = NoExc)
           /\ result.val = a_bc.val

C7_AddCommutesAssociates == C7_AddCommutes /\ C7_AddAssociates

(***************************************************************************)
(* C8: pwe_to_swe_conversion raises the domain-validity error, with no     *)
(* SphericalWaveExpansion constructed, whenever the height of the target   *)
(* reference point is below the lower or above the upper bound of the      *)
(* expansion's validity interval (the smaller and the larger of the two    *)
(* stored bounds); a height equal to a bound is accepted.                  *)
(***************************************************************************)
C8_DomainValidity ==
    (result.op = "pwe_to_swe_conversion" /\ result.args.pwe.valid_between # None)
    => LET z == result.args.reference_point[3]
           vb == result.args.pwe.valid_between
           lower == IF vb[1] <= vb[2] THEN vb[1] ELSE vb[2]
           upper == IF vb[1] >= vb[2] THEN vb[1] ELSE vb[2]
       IN  /\ (z < lower \/ z > upper) =>
                (result.exc = DomainError /\ result.val = NoneObj /\ result.made = <<>>)
           /\ (lower <= z /\ z <= upper) =>
                (result.exc # DomainError /\ Len(result.made) = 1)
           /\ (lower <= z /\ z <= upper /\ Len(result.args.pwe.k_parallel) > 1) =>
                (result.exc = NoExc /\ result.val.cls = "SWE")

\* A conversion at the upper bound of the interval, which returns.
C8_Witness ==
    /\ result.op = "pwe_to_swe_conversion"
    /\ result.args.pwe.valid_between # None
    /\ result.args.reference_point[3] = result.args.pwe.valid_between[2]
    /\ result.args.pwe.valid_between[1] < result.args.pwe.valid_between[2]
    /\ result.exc = NoExc /\ result.val.cls = "SWE"

(***************************************************************************)
(* C9: swe_to_pwe_conversion returns <<pwe_up, pwe_down>>, tagged upgoing   *)
(* and downgoing, both with the k of the spherical expansion, the          *)
(* requested grids and the requested reference point; pwe_up is valid on   *)
(* <<z, max(valid_between)>> and pwe_down on <<min(valid_between), z>>,    *)
(* z the height of the spherical expansion's reference point.              *)
(***************************************************************************)
GridOf(arg) == IF "array" \in DOMAIN arg THEN arg.array ELSE <<arg.scalar>>

C9_SweToPwePair ==
    result.op = "swe_to_pwe_conversion"
    => LET swe == result.args.swe
           vb == result.args.valid_between
           z == swe.reference_point[3]
           hi == IF vb[1] >= vb[2] THEN vb[1] ELSE vb[2]
           lo == IF vb[1] <= vb[2] THEN vb[1] ELSE vb[2]
       IN  /\ result.exc = NoExc /\ result.val.cls = "pair"
           /\ result.val.up.cls = "PWE" /\ result.val.down.cls = "PWE"
           /\ result.val.up.type = "upgoing" /\ result.val.down.type = "downgoing"
           /\ \A pwe \in {result.val.up, result.val.down} :
                 /\ pwe.k = swe.k
                 /\ pwe.k_parallel = GridOf(result.args.k_parallel)
                 /\ pwe.azimuthal_angles = GridOf(result.args.azimuthal_angles)
                 /\ pwe.reference_point = result.args.reference_point
                 /\ array_shape(pwe.coefficients)
                      = <<2, Len(pwe.k_parallel), Len(pwe.azimuthal_angles)>>
           /\ result.val.up.valid_between = <<z, hi>>
           /\ result.val.down.valid_between = <<lo, z>>
           /\ result.val.up.valid_between[1] = result.val.down.valid_between[2]

\* A conversion with valid_between given upper bound first, at another
\* reference point than that of the spherical expansion.
C9_Witness ==
    /\ result.op = "swe_to_pwe_conversion" /\ result.exc = NoExc
    /\ result.args.valid_between[1] > result.args.valid_between[2]
    /\ result.args.swe.reference_point # result.args.reference_point
    /\ result.args.swe.k = 2
    /\ result.val.up.valid_between[1] < result.val.up.valid_between[2]
    /\ result.val.down.valid_between[1] < result.val.down.valid_between[2]

(***************************************************************************)
(* SpecSystem: linear_system.SystemMatrix over a list of particles.        *)
(***************************************************************************)
MaxParticles == 3       \* SpecSystem: the list has 0 .. MaxParticles particles

\* sum(list) and list[:n] of Python, for n >= 0.
RECURSIVE sum(_)
sum(list) == IF list = <<>> THEN 0 ELSE list[1] + sum(Tail(list))
slice(list, n) == SubSeq(list, 1, min(n, Len(list)))

\* [fldex.blocksize(particle.l_max, particle.m_max) for particle in particles]
blocksizes(particles) ==
    [j \in 1 .. Len(particles) |-> blocksize(particles[j].l_max, particles[j].m_max)]

\* A plausible slip: the block sizes are taken from particle_list[:i].
index_block_short_slice(i) ==
    LET sizes == blocksizes(slice(particle_list, i))
    IN  <<sum(slice(sizes, i)), sum(sizes)>>

\* SystemMatrix.index_block(i); range(start, stop) is <<start, stop>>.
index_block(i) ==
    LET sizes == blocksizes(slice(particle_list, i + 1))
    IN  <<sum(slice(sizes, i)), sum(sizes)>>

\* SystemMatrix.index(i, tau, l, m); particle i is particle_list[i + 1] here.
index(i, tau, l, m) ==
    LET sizes == blocksizes(slice(particle_list, i))
    IN  sum(sizes) + multi_to_single_index(tau, l, m, particle_list[i + 1].l_max,
                                           particle_list[i + 1].m_max)

\* The cutoffs a particle may have: full order, no order, and in between.
ParticleCutoffs == {<<1, 0>>, <<1, 1>>, <<2, 1>>, <<2, 2>>, <<3, 1>>}
Particles == {[l_max |-> c[1], m_max |-> c[2]] : c \in ParticleCutoffs}
ParticleLists ==
    UNION {[1 .. n -> Particles] : n \in 0 .. MaxParticles}

InitSystem ==
    /\ particle_list \in ParticleLists
    /\ shape = <<>>
    /\ ret = [op |-> "none"]
    /\ IndexIdle /\ ExpIdle /\ LinIdle

\* SystemMatrix(particle_list)
NewSystemMatrix ==
    /\ shape = <<>>
    /\ shape' = <<sum(blocksizes(particle_list)), sum(blocksizes(particle_list))>>
    /\ ret' = [op |-> "SystemMatrix"]
    /\ UNCHANGED <<particle_list, cutoffs, triple, visited, opA, opB, opC, result,
                 linear_system, args>>

\* system_matrix.index_block(i) for a particle number i.  A query changes
\* nothing but ret, so the first query of a matrix stands for every later one.
IndexBlock ==
    /\ shape # <<>> /\ ret.op = "SystemMatrix"
    /\ \E i \in 0 .. (Len(particle_list) - 1) :
         ret' = [op |-> "index_block", i |-> i, val |-> index_block(i)]
    /\ UNCHANGED <<particle_list, shape, cutoffs, triple, visited, opA, opB, opC, result,
                 linear_system, args>>

\* system_matrix.index(i, tau, l, m) for a coefficient of particle i, as a
\* first query or after a query for a block.
Index ==
    /\ shape # <<>> /\ ret.op \in {"SystemMatrix", "index_block"}
    /\ \E i \in 0 .. (Len(particle_list) - 1) :
         \E t \in ValidTriples(particle_list[i + 1].l_max, particle_list[i + 1].m_max) :
            ret' = [op |-> "index", i |-> i, tau |-> t[1], l |-> t[2], m |-> t[3],
                    val |-> index(i, t[1], t[2], t[3])]
    /\ UNCHANGED <<particle_list, shape, cutoffs, triple, visited, opA, opB, opC, result,
                 linear_system, args>>

NextSystem == NewSystemMatrix \/ IndexBlock \/ Index

SpecSystem == InitSystem /\ [][NextSystem]_vars

(***************************************************************************)
(* C10: the ranges index_block(0), ..., index_block(n-1) of a SystemMatrix *)
(* over n particles partition [0, N) in list order: the first starts at 0, *)
(* each has the size blocksize(l_max_i, m_max_i) and starts where the one  *)
(* before ends, the last ends at N = shape[0] = shape[1], the sum of the   *)
(* block sizes; and index(i, tau, l, m) is the start of block i plus       *)
(* multi_to_single_index(tau, l, m, l_max_i, m_max_i).                     *)
(***************************************************************************)
C10_BlocksPartition ==
    shape # <<>> =>
      LET n == Len(particle_list)
          N == shape[1]
          size(i) == blocksize(particle_list[i + 1].l_max, particle_list[i + 1].m_max)
          InBlock(x, i) == index_block(i)[1] <= x /\ x < index_block(i)[2]
          total[i \in 0 .. n] == IF i = 0 THEN 0 ELSE total[i - 1] + size(i - 1)
      IN  /\ shape[1] = shape[2]
          /\ total[n] = N
          \* the layout as a whole, once per matrix (queries change neither
          \* the particles nor the shape)
          /\ ret.op = "SystemMatrix" =>
                /\ n > 0 => (index_block(0)[1] = 0 /\ index_block(n - 1)[2] = N)
                /\ \A i \in 0 .. (n - 1) :
                      /\ index_block(i)[2] - index_block(i)[1] = size(i)
                      /\ i > 0 => index_block(i)[1] = index_block(i - 1)[2]
                /\ \A x \in 0 .. (N - 1) :
                      Cardinality({i \in 0 .. (n - 1) : InBlock(x, i)}) = 1
          \* the range a query for block i returned
          /\ ret.op = "index_block" =>
                /\ ret.val = <<total[ret.i], total[ret.i + 1]>>
                /\ ret.val[2] - ret.val[1] = size(ret.i)
                /\ ret.i = 0 => ret.val[1] = 0
                /\ ret.i = n - 1 => ret.val[2] = N
          \* the position a query for a coefficient of particle i returned
          /\ ret.op = "index" =>
                /\ ret.val = total[ret.i]
                               + multi_to_single_index(ret.tau, ret.l, ret.m,
                                                       particle_list[ret.i + 1].l_max,
                                                       particle_list[ret.i + 1].m_max)
                /\ total[ret.i] <= ret.val /\ ret.val < total[ret.i + 1]

\* The last coefficient of the last of several particles with different cutoffs.
C10_Witness ==
    /\ shape # <<>> /\ Len(particle_list) >= 2
    /\ particle_list[1] # particle_list[Len(particle_list)]
    /\ ret.op = "index" /\ ret.i = Len(particle_list) - 1
    /\ ret.val = shape[1] - 1

(***************************************************************************)
(* Linear System Assembler / Solver: linear_system.LinearSystem and the    *)
(* operators TMatrix, CouplingMatrix and MasterMatrix.                     *)
(*                                                                         *)
(* A vector is a sequence of integers, a matrix a sequence of rows;        *)
(* position p of a numpy array is entry p + 1 here.  A particle is a       *)
(* record with l_max, m_max, position, t_matrix, initial_field and         *)
(* scattered_field.                                                        *)
(***************************************************************************)

\* An array is held entry by entry: array(f, n) is <<f[1], ..., f[n]>>, each
\* entry computed once, and array2 the same for rows of m entries.
RECURSIVE array(_, _)
array(f, n) == IF n = 0 THEN <<>> ELSE Append(array(f, n - 1), f[n])
array2(f, n, m) == array([r \in 1 .. n |-> array(f[r], m)], n)

\* numpy: matrix.dot(vector), vector - vector, np.eye(n), np.zeros((n, n)).
dot(matrix, vector) ==
    array([r \in 1 .. Len(matrix) |->
             sum(array([c \in 1 .. Len(vector) |-> matrix[r][c] * vector[c]],
                       Len(vector)))],
          Len(matrix))
vector_sub(u, v) == array([p \in 1 .. Len(u) |-> u[p] - v[p]], Len(u))
eye(n) == array2([r \in 1 .. n |-> [c \in 1 .. n |-> IF r = c THEN 1 ELSE 0]], n, n)
zeros2(n) == array2([r \in 1 .. n |-> [c \in 1 .. n |-> 0]], n, n)
column(matrix, c) == array([r \in 1 .. Len(matrix) |-> matrix[r][c]], Len(matrix))
from_columns(n, cols) ==
    array2([r \in 1 .. n |-> [c \in 1 .. Len(cols) |-> cols[c][r]]], n, Len(cols))
matrix_sub(a, b) ==
    array2([r \in 1 .. Len(a) |-> [c \in 1 .. Len(a) |-> a[r][c] - b[r][c]]],
           Len(a), Len(a))

\* vector[range(start, stop)] and vector[range(start, stop)] = values.
take(vector, rng) == SubSeq(vector, rng[1] + 1, rng[2])
put(vector, rng, values) ==
    LET start == rng[1]
        stop == rng[2]
        new == values
    IN  SubSeq(vector, 1, start) \o new \o SubSeq(vector, stop + 1, Len(vector))

\* The loop of apply_t_matrix over enumerate(particle_list), from particle i_s on.
RECURSIVE apply_t_matrix_loop(_, _, _)
apply_t_matrix_loop(tv, vector, i_s) ==
    IF i_s >= Len(particle_list) THEN tv
    ELSE apply_t_matrix_loop(
            put(tv, index_block(i_s),
                dot(particle_list[i_s + 1].t_matrix, take(vector, index_block(i_s)))),
            vector, i_s + 1)

\* A plausible slip: the loop over the particles starts at the second one.
apply_t_matrix_skip_first(vector) == apply_t_matrix_loop(zeros(Len(vector)), vector, 1)

\* TMatrix.__init__: apply_t_matrix(vector) for a vector of shape (N,).
apply_t_matrix(vector) == apply_t_matrix_loop(zeros(Len(vector)), vector, 0)

\* apply_t_matrix as matmat: numpy applies the same statements to the rows
\* range(start, stop) of a two-dimensional array, i.e. to each column.
apply_t_matrix_matmat(matrix) ==
    IF matrix = <<>> THEN <<>>
    ELSE from_columns(Len(matrix),
                      array([c \in 1 .. Len(matrix[1]) |->
                               apply_t_matrix(column(matrix, c))],
                            Len(matrix[1])))

\* TMatrix.right_hand_side
RECURSIVE right_hand_side_loop(_, _)
right_hand_side_loop(tai, i_s) ==
    IF i_s >= Len(particle_list) THEN tai
    ELSE right_hand_side_loop(
            put(tai, index_block(i_s),
                dot(particle_list[i_s + 1].t_matrix,
                    particle_list[i_s + 1].initial_field.coefficients)),
            i_s + 1)
right_hand_side(self) == right_hand_side_loop(zeros(self.shape[1]), 0)

\* SystemMatrix.__init__(self, particle_list): the shape.
SystemMatrix_shape ==
    <<sum(blocksizes(particle_list)), sum(blocksizes(particle_list))>>

(***************************************************************************)
(* CouplingMatrix.  The coupling blocks and the lookup tables come from    *)
(* smuthi.particle_coupling; args.coupling holds, as one N x N matrix, the *)
(* values that module provides for the particles at hand.                  *)
(***************************************************************************)
ListIndexError == "IndexError: list index out of range"
Lookup3DError == "NotImplementedError: 3D lookup not yet implemented"
LookupStoreError == "NotImplementedError: lookups not yet implemtned"
NoAttributeNMax == "AttributeError: 'CouplingMatrix' object has no attribute 'n_max'"
ArrayIndexError == "IndexError: arrays used as indices must be of integer (or boolean) type"

\* max([...]) of a non-empty list.
RECURSIVE list_max(_)
list_max(list) ==
    IF Len(list) = 1 THEN list[1] ELSE max(list[1], list_max(Tail(list)))

\* A plausible slip: the count is compared with <= instead of ==.
same_height_at_most(z_list) ==
    Cardinality({j \in 1 .. Len(z_list) : z_list[j] = z_list[1]}) <= Len(z_list)

\* z_list.count(z_list[0]) == len(z_list), for a non-empty z_list.
same_height(z_list) ==
    Cardinality({j \in 1 .. Len(z_list) : z_list[j] = z_list[1]}) = Len(z_list)

\* The particles i, in list order, whose loops (m, l, tau) reach the combined
\* index n: what lines 174-182 append to bucket n.
lookup_bucket(particles, l_max, m_max, n) ==
    LET reaches(i) ==
          \E t \in (0 .. 1) \X (1 .. particles[i + 1].l_max)
                   \X ((-particles[i + 1].m_max) .. particles[i + 1].m_max) :
              /\ t[2] >= max(1, abs(t[3]))
              /\ multi_to_single_index(t[1], t[2], t[3], l_max, m_max) = n
        triple_of(i) ==
          CHOOSE t \in (0 .. 1) \X (1 .. particles[i + 1].l_max)
                       \X ((-particles[i + 1].m_max) .. particles[i + 1].m_max) :
              /\ t[2] >= max(1, abs(t[3]))
              /\ multi_to_single_index(t[1], t[2], t[3], l_max, m_max) = n
        RECURSIVE collect(_)
        collect(i) ==
          IF i >= Len(particles) THEN <<>>
          ELSE (IF reaches(i)
                  THEN <<[particle |-> i,
                          position |-> index(i, triple_of(i)[1], triple_of(i)[2],
                                             triple_of(i)[3]),
                          m |-> triple_of(i)[3]]>>
                  ELSE <<>>) \o collect(i + 1)
    IN  collect(0)

\* coup_mat of lines 191-199: the block of every particle pair at its place.
dense_coupling_matrix(N) ==
    LET covered == UNION {(index_block(i)[1] + 1) .. index_block(i)[2] :
                             i \in 0 .. (Len(particle_list) - 1)}
    IN  array2([r \in 1 .. N |-> [c \in 1 .. N |->
                  IF r \in covered /\ c \in covered THEN args.coupling[r][c] ELSE 0]],
               N, N)

\* CouplingMatrix.__init__(particle_list, store_matrix, lookup_resolution):
\* the exception raised and the object as far as it was built.
CouplingMatrix(store_matrix, lookup_resolution) ==
    LET base == [cls |-> "CouplingMatrix", shape |-> SystemMatrix_shape]
        z_list == [j \in 1 .. Len(particle_list) |-> particle_list[j].position[3]]
        l_max == list_max([j \in 1 .. Len(particle_list) |-> particle_list[j].l_max])
        m_max == list_max([j \in 1 .. Len(particle_list) |-> particle_list[j].m_max])
        n_max == blocksize(l_max, m_max)
        with_lookup ==
            [cls |-> "CouplingMatrix", shape |-> SystemMatrix_shape,
             lookup |-> "radial_coupling_lookup",
             l_max |-> l_max, m_max |-> m_max, n_max |-> n_max,
             buckets |-> [n \in 1 .. n_max |->
                            lookup_bucket(particle_list, l_max, m_max, n - 1)]]
        dense(self) ==
            [exc |-> NoExc,
             obj |-> [linear_operator |-> [cls |-> "MatrixLinearOperator",
                                           A |-> dense_coupling_matrix(self.shape[1])]]
                     @@ self]
        callback(self) ==
            [exc |-> NoExc,
             obj |-> [linear_operator |-> [cls |-> "_CustomLinearOperator",
                                           matvec |-> "evaluate_coupling_matrix"]]
                     @@ self]
    IN  IF lookup_resolution # None
        THEN IF particle_list = <<>> THEN [exc |-> ListIndexError, obj |-> base]
             ELSE IF ~same_height(z_list) THEN [exc |-> Lookup3DError, obj |-> base]
             ELSE IF store_matrix THEN [exc |-> LookupStoreError, obj |-> with_lookup]
             ELSE callback(with_lookup)
        ELSE IF store_matrix THEN dense(base) ELSE callback(base)

\* evaluate_coupling_matrix(in_vec) of a CouplingMatrix built with store_matrix False.
evaluate_coupling_matrix(self, in_vec) ==
    IF "n_max" \notin DOMAIN self THEN Outcome(NoAttributeNMax, NoneObj, <<>>)
    ELSE IF \E n \in 1 .. self.n_max : self.buckets[n] = <<>>
      THEN Outcome(ArrayIndexError, NoneObj, <<>>)
    ELSE
      \* idx: the positions of all buckets, in the order of the loop over n2;
      \* out_vec[idx1] += M.dot(in_vec[idx2]) adds, over all n2, the coupling
      \* of every position of idx2 to every position of idx1.
      LET RECURSIVE positions(_)
          positions(n) ==
            IF n > self.n_max THEN <<>>
            ELSE array([b \in 1 .. Len(self.buckets[n]) |->
                          self.buckets[n][b].position + 1], Len(self.buckets[n]))
                 \o positions(n + 1)
          idx == positions(1)
          written == {idx[q] : q \in 1 .. Len(idx)}
          out_vec == array([p \in 1 .. Len(in_vec) |->
                              IF p \notin written THEN 0
                              ELSE sum(array([q \in 1 .. Len(idx) |->
                                                args.coupling[p][idx[q]] * in_vec[idx[q]]],
                                             Len(idx)))],
                           Len(in_vec))
      IN  Outcome(NoExc, out_vec, <<>>)

\* linear_operator.matvec(x) of a CouplingMatrix.
coupling_matvec(self, x) ==
    IF self.linear_operator.cls = "MatrixLinearOperator"
    THEN Outcome(NoExc, dot(self.linear_operator.A, x), <<>>)
    ELSE evaluate_coupling_matrix(self, x)

(***************************************************************************)
(* MasterMatrix                                                            *)
(***************************************************************************)
\* MasterMatrix.__init__(t_matrix, coupling_matrix)
MasterMatrix(coupling_matrix) ==
    IF coupling_matrix.linear_operator.cls = "MatrixLinearOperator"
    THEN [cls |-> "MasterMatrix", shape |-> SystemMatrix_shape,
          linear_operator |->
             [cls |-> "MatrixLinearOperator",
              A |-> matrix_sub(eye(SystemMatrix_shape[1]),
                               apply_t_matrix_matmat(coupling_matrix.linear_operator.A))]]
    ELSE [cls |-> "MasterMatrix", shape |-> SystemMatrix_shape,
          linear_operator |-> [cls |-> "_CustomLinearOperator",
                               matvec |-> "apply_master_matrix"]]

\* A plausible slip: the callback adds the coupled field instead of subtracting it.
apply_master_matrix_plus(coupling_matrix, vector) ==
    LET w == coupling_matvec(coupling_matrix, vector)
    IN  IF w.exc # NoExc THEN w
        ELSE LET tw == apply_t_matrix(w.val)
             IN  Outcome(NoExc,
                         array([p \in 1 .. Len(vector) |-> vector[p] + tw[p]],
                               Len(vector)),
                         <<>>)

\* apply_master_matrix(vector) of a MasterMatrix over a callback coupling operator.
apply_master_matrix(coupling_matrix, vector) ==
    LET w == coupling_matvec(coupling_matrix, vector)
    IN  IF w.exc # NoExc THEN w
        ELSE Outcome(NoExc, vector_sub(vector, apply_t_matrix(w.val)), <<>>)

\* master_matrix.linear_operator.matvec(x) of a LinearSystem.
master_matvec(self, x) ==
    IF self.master_matrix.linear_operator.cls = "MatrixLinearOperator"
    THEN Outcome(NoExc, dot(self.master_matrix.linear_operator.A, x), <<>>)
    ELSE apply_master_matrix(self.coupling_matrix, x)

(***************************************************************************)
(* LinearSystem                                                            *)
(***************************************************************************)
LUConfigError ==
    "ValueError: LU factorization only possible with the option \"store coupling matrix\"."
SolverTypeError == "ValueError: This solver type is currently not implemented."
UnexpectedKeyword == "TypeError: __init__() got an unexpected keyword argument"

\* LinearSystem.__init__ from line 52 on (the particles hold their initial
\* field and T-matrix): the exception raised, the object, and the
\* CouplingMatrix as far as it was built.
LinearSystem ==
    LET cm == CouplingMatrix(args.store_coupling_matrix,
                             args.coupling_matrix_lookup_resolution)
    IN  IF cm.exc # NoExc
        THEN [exc |-> cm.exc, obj |-> NoneObj, coupling_matrix |-> cm.obj]
        ELSE [exc |-> NoExc,
              obj |-> [cls |-> "LinearSystem",
                       solver_type |-> args.solver_type,
                       coupling_matrix |-> cm.obj,
                       t_matrix |-> [cls |-> "TMatrix", shape |-> SystemMatrix_shape],
                       master_matrix |-> MasterMatrix(cm.obj)],
              coupling_matrix |-> cm.obj]

\* scipy.linalg.lu_factor(A): the factors, named by the matrix they factorize.
lu_factor(A) == [lu_piv_of |-> A]

\* The solution x of A x = b.  It is b itself where A is the unit matrix;
\* elsewhere its entries are left as terms in A and b.
solution(A, b) ==
    IF A = eye(Len(b)) THEN b
    ELSE array([p \in 1 .. Len(b) |-> [x |-> p, A |-> A, b |-> b]], Len(b))

\* scipy.linalg.lu_solve(LU_piv, b)
lu_solve(LU_piv, b) == solution(LU_piv.lu_piv_of, b)

\* scipy.sparse.linalg.gmres(A, b, x0): the first residual b - A x0 applies
\* the operator, so an exception of the operator is the exception of gmres;
\* where the residual is zero, x0 is returned, and elsewhere the entries of
\* the solution are left as terms.
gmres(self, b, x0) ==
    LET first == master_matvec(self, x0)
    IN  IF first.exc # NoExc THEN first
        ELSE IF first.val = b THEN Outcome(NoExc, x0, <<>>)
        ELSE Outcome(NoExc,
                     array([p \in 1 .. Len(b) |->
                              [x |-> p, A |-> self.master_matrix.linear_operator, b |-> b]],
                           Len(b)),
                     <<>>)

\* The collaborating layer system: two layers that meet at LayerInterface.
LayerInterface == 2
layer_number(z) == IF z < LayerInterface THEN 0 ELSE 1
lower_zlimit(i) == IF i = 0 THEN -Infinity ELSE LayerInterface
upper_zlimit(i) == IF i = 0 THEN LayerInterface ELSE Infinity

\* The parameters of SphericalWaveExpansion.__init__ and the keywords with
\* which solve calls it.
SweParameters == {"k", "l_max", "m_max", "type", "reference_point", "valid_between"}
SolveKeywords == {"k", "l_max", "m_max", "kind", "reference_point", "lower_z", "upper_z"}

\* Lines 82-90: the particles after the loop, and the exception that ends it.
scatter(b) ==
    IF particle_list = <<>> THEN [exc |-> NoExc, particle_list |-> particle_list]
    ELSE IF ~(SolveKeywords \subseteq SweParameters)
      THEN [exc |-> UnexpectedKeyword, particle_list |-> particle_list]
    ELSE [exc |-> NoExc,
          particle_list |->
            [j \in 1 .. Len(particle_list) |->
               [particle_list[j] EXCEPT !.scattered_field =
                  [SphericalWaveExpansion(args.k, particle_list[j].l_max,
                                          <<particle_list[j].m_max>>, None,
                                          particle_list[j].position, None)
                   EXCEPT !.coefficients = take(b, index_block(j - 1))]]]]

\* A plausible slip: the cached factors are never found.
hasattr_LU_piv_never(master_matrix) == FALSE

\* hasattr(self.master_matrix, 'LU_piv')
hasattr_LU_piv(master_matrix) == "LU_piv" \in DOMAIN master_matrix

\* LinearSystem.solve: the exception, the object and the particles after the
\* call, and what the call did on its way.
solve(self) ==
    LET did == [factorized |-> FALSE, rhs |-> <<>>, b |-> <<>>,
                lu_piv |-> None, gmres_A |-> None, gmres_x0 |-> None]
        rhs == right_hand_side(self.t_matrix)
        finish(obj, b, log) ==
            [exc |-> scatter(b).exc, self |-> obj,
             particle_list |-> scatter(b).particle_list, did |-> log]
        abort(exc, log) ==
            [exc |-> exc, self |-> self, particle_list |-> particle_list, did |-> log]
    IN  IF Len(particle_list) > 0
        THEN IF self.solver_type = "LU"
             THEN IF self.master_matrix.linear_operator.cls # "MatrixLinearOperator"
                  THEN abort(LUConfigError, did)
                  ELSE LET cached == hasattr_LU_piv(self.master_matrix)
                           mm == IF cached THEN self.master_matrix
                                 ELSE [LU_piv |-> lu_factor(self.master_matrix.linear_operator.A)]
                                      @@ self.master_matrix
                           obj == [self EXCEPT !.master_matrix = mm]
                       IN  finish(obj, lu_solve(mm.LU_piv, rhs),
                                  [did EXCEPT !.factorized = ~cached, !.rhs = rhs,
                                              !.b = lu_solve(mm.LU_piv, rhs),
                                              !.lu_piv = mm.LU_piv])
             ELSE IF self.solver_type = "gmres"
             THEN LET out == gmres(self, rhs, rhs)
                      log == [did EXCEPT !.rhs = rhs,
                                         !.gmres_A = self.master_matrix.linear_operator,
                                         !.gmres_x0 = rhs]
                  IN  IF out.exc # NoExc THEN abort(out.exc, log)
                      ELSE finish(self, out.val, [log EXCEPT !.b = out.val])
             ELSE abort(SolverTypeError, did)
        ELSE finish(self, <<>>, did)

(***************************************************************************)
(* SpecLinear: construct a LinearSystem over a particle list, apply its    *)
(* operators, change a particle's T-matrix, and solve.                     *)
(***************************************************************************)
MaxSolveParticles == 2  \* SpecLinear: the list has 0 .. MaxSolveParticles particles
MaxSolves == 2          \* SpecLinear: solve() is called at most MaxSolves times

\* Cutoffs of particle j: blocks of 2 and of 6 coefficients, and for the
\* first particle also a degree above and an order below those of the others.
SolveCutoffs(j) == IF j = 1 THEN {<<1, 0>>, <<1, 1>>, <<2, 0>>} ELSE {<<1, 0>>, <<1, 1>>}
\* Heights: the particles at 1, the last of several at 1 or at 2.
SolveHeights(j, n) == IF j = n /\ n > 1 THEN {1, 2} ELSE {1}

\* T-matrices as smuthi.t_matrix provides them: square, of the block's size.
unit_plus_shift(n) ==
    array2([r \in 1 .. n |-> [c \in 1 .. n |-> IF c = r \/ c = r + 1 THEN 1 ELSE 0]], n, n)
scaled_unit(n, s) ==
    array2([r \in 1 .. n |-> [c \in 1 .. n |-> IF r = c THEN s ELSE 0]], n, n)
first_t_matrix(j, n) == IF j % 2 = 1 THEN unit_plus_shift(n) ELSE scaled_unit(n, 2)
other_t_matrix(n) == scaled_unit(n, 3)

\* Coupling values as smuthi.particle_coupling provides them: none, or some.
CouplingValues(N) ==
    {zeros2(N), array2([r \in 1 .. N |-> [c \in 1 .. N |-> (r + 2 * c) % 3]], N, N)}

\* The vectors the operators are applied to.
TestVectors(N) ==
    {zeros(N), array([p \in 1 .. N |-> p], N)}

\* The particles hold the T-matrix and the initial field that the
\* collaborators compute for them: the constructor assigns these very values.
SolveParticles(j, n) ==
    {[l_max |-> c[1], m_max |-> c[2], position |-> <<j, 0, z>>,
      t_matrix |-> first_t_matrix(j, blocksize(c[1], c[2])),
      initial_field |-> [coefficients |->
                           array([q \in 1 .. blocksize(c[1], c[2]) |-> q],
                                 blocksize(c[1], c[2]))],
      scattered_field |-> NoneObj] :
        c \in SolveCutoffs(j), z \in SolveHeights(j, n)}
SolveParticleLists ==
    UNION {{list \in [1 .. n -> UNION {SolveParticles(j, n) : j \in 1 .. n}] :
              \A j \in 1 .. n : list[j] \in SolveParticles(j, n)} :
           n \in 0 .. MaxSolveParticles}

InitLinear ==
    /\ particle_list \in SolveParticleLists
    /\ \E solver_type \in {"LU", "gmres", "cg"}, store \in BOOLEAN,
          resolution \in {None, <<1>>} :
         \E coupling \in CouplingValues(SystemMatrix_shape[1]) :
            args = [solver_type |-> solver_type,
                    store_coupling_matrix |-> store,
                    coupling_matrix_lookup_resolution |-> resolution,
                    k |-> 1,
                    t_matrix |-> [j \in 1 .. Len(particle_list) |->
                                    particle_list[j].t_matrix],
                    initial_field |-> [j \in 1 .. Len(particle_list) |->
                                    particle_list[j].initial_field.coefficients],
                    coupling |-> coupling]
    /\ linear_system = NoneObj
    /\ ret = [op |-> "none"]
    /\ shape = <<>>
    /\ IndexIdle /\ ExpIdle

\* LinearSystem(particle_list, initial_field, layer_system, ...): lines 39-47
\* give every particle its initial field and T-matrix (the values it holds),
\* lines 52-61 build the operators.
NewLinearSystem ==
    /\ linear_system = NoneObj /\ ret.op = "none"
    /\ particle_list' =
         [j \in 1 .. Len(particle_list) |->
            [particle_list[j] EXCEPT
               !.initial_field = [coefficients |-> args.initial_field[j]],
               !.t_matrix = args.t_matrix[j]]]
    /\ UNCHANGED args
    /\ LET out == LinearSystem
       IN  /\ linear_system' =
                IF out.exc = NoExc
                THEN [history |-> [solve |-> 0, lu_factor |-> 0]] @@ out.obj
                ELSE NoneObj
           /\ ret' = [op |-> "LinearSystem", exc |-> out.exc,
                      coupling_matrix |-> out.coupling_matrix]
    /\ UNCHANGED <<shape, cutoffs, triple, visited, opA, opB, opC, result>>

\* linear_system.solve()
Solve ==
    /\ linear_system # NoneObj
    /\ linear_system.history.solve < MaxSolves
    /\ LET out == solve(linear_system)
       IN  /\ linear_system' =
                [out.self EXCEPT
                   !.history.solve = @ + 1,
                   !.history.lu_factor = IF out.did.factorized THEN @ + 1 ELSE @]
           /\ particle_list' = out.particle_list
           /\ ret' = [op |-> "solve", exc |-> out.exc, did |-> out.did,
                      cached_before |-> "LU_piv" \in DOMAIN linear_system.master_matrix]
    /\ UNCHANGED <<args, shape, cutoffs, triple, visited, opA, opB, opC, result>>

\* particle.t_matrix = ..., once, on the last particle of the list.
SetTMatrix ==
    /\ linear_system # NoneObj
    /\ \A j \in 1 .. Len(particle_list) : particle_list[j].t_matrix = args.t_matrix[j]
    /\ \E j \in {Len(particle_list)} \ {0} :
         /\ particle_list' =
              [particle_list EXCEPT
                 ![j].t_matrix = other_t_matrix(blocksizes(particle_list)[j])]
         /\ ret' = [op |-> "set_t_matrix", i |-> j - 1]
    /\ UNCHANGED <<linear_system, args, shape, cutoffs, triple, visited,
                   opA, opB, opC, result>>

\* An operator is applied right after construction or after a T-matrix changed.
CanApply ==
    /\ linear_system # NoneObj
    /\ ret.op \in {"LinearSystem", "set_t_matrix"}

\* linear_system.t_matrix.linear_operator.matvec(x)
ApplyTMatrix ==
    /\ CanApply
    /\ \E x \in TestVectors(linear_system.t_matrix.shape[1]) :
         ret' = [op |-> "t_matrix.matvec", x |-> x, exc |-> NoExc,
                 val |-> apply_t_matrix(x)]
    /\ UNCHANGED <<linear_system, particle_list, args, shape, cutoffs, triple, visited,
                   opA, opB, opC, result>>

\* linear_system.coupling_matrix.linear_operator.matvec(x)
ApplyCouplingMatrix ==
    /\ CanApply
    /\ \E x \in TestVectors(linear_system.coupling_matrix.shape[1]) :
         LET out == coupling_matvec(linear_system.coupling_matrix, x)
         IN  ret' = [op |-> "coupling_matrix.matvec", x |-> x, exc |-> out.exc,
                     val |-> out.val]
    /\ UNCHANGED <<linear_system, particle_list, args, shape, cutoffs, triple, visited,
                   opA, opB, opC, result>>

\* linear_system.master_matrix.linear_operator.matvec(x)
ApplyMasterMatrix ==
    /\ CanApply
    /\ \E x \in TestVectors(linear_system.master_matrix.shape[1]) :
         LET out == master_matvec(linear_system, x)
         IN  ret' = [op |-> "master_matrix.matvec", x |-> x, exc |-> out.exc,
                     val |-> out.val]
    /\ UNCHANGED <<linear_system, particle_list, args, shape, cutoffs, triple, visited,
                   opA, opB, opC, result>>

NextLinear ==
    \/ NewLinearSystem \/ Solve \/ SetTMatrix
    \/ ApplyTMatrix \/ ApplyCouplingMatrix \/ ApplyMasterMatrix

SpecLinear == InitLinear /\ [][NextLinear]_vars

(***************************************************************************)
(* Claims about the linear system                                          *)
(***************************************************************************)

\* The positions of block i, as positions of a sequence.
BlockPositions(i) == (index_block(i)[1] + 1) .. index_block(i)[2]

(***************************************************************************)
(* C11: the T-matrix operator is block-diagonal.  For the vector x it was  *)
(* applied to and every particle i, the segment index_block(i) of the      *)
(* output is particle i's T-matrix times the segment index_block(i) of x;  *)
(* it stays the same when the entries of x outside index_block(i) change,  *)
(* and, after another particle's T-matrix was replaced, it is still the    *)
(* product with the T-matrix particle i got at construction.               *)
(***************************************************************************)
C11_TMatrixBlockDiagonal ==
    ret.op = "t_matrix.matvec" =>
      /\ Len(ret.val) = Len(ret.x)
      /\ \A i \in 0 .. (Len(particle_list) - 1) :
            LET elsewhere == array([p \in 1 .. Len(ret.x) |->
                                      IF p \in BlockPositions(i) THEN ret.x[p]
                                      ELSE ret.x[p] + 5], Len(ret.x))
            IN  /\ take(ret.val, index_block(i))
                     = dot(particle_list[i + 1].t_matrix, take(ret.x, index_block(i)))
                /\ take(apply_t_matrix(elsewhere), index_block(i))
                     = take(ret.val, index_block(i))
                /\ i + 1 < Len(particle_list) =>
                     take(ret.val, index_block(i))
                       = dot(args.t_matrix[i + 1], take(ret.x, index_block(i)))

\* The operator applied to a non-zero vector over two particles, after the
\* T-matrix of the second one was replaced.
C11_Witness ==
    /\ ret.op = "t_matrix.matvec"
    /\ Len(particle_list) = 2
    /\ particle_list[2].t_matrix # args.t_matrix[2]
    /\ ret.x # zeros(Len(ret.x))
    /\ take(ret.val, index_block(0)) # take(zeros(Len(ret.x)), index_block(0))

\* x - T (W x), computed apart from the operators: W as the coupling values
\* of the particle pairs, T block by block from the particles' T-matrices.
MasterProduct(x) ==
    LET wx == dot(args.coupling, x)
        block_of(p) == CHOOSE i \in 0 .. (Len(particle_list) - 1) : p \in BlockPositions(i)
        twx == array([p \in 1 .. Len(x) |->
                        dot(particle_list[block_of(p) + 1].t_matrix,
                            take(wx, index_block(block_of(p))))
                          [p - index_block(block_of(p))[1]]],
                     Len(x))
    IN  vector_sub(x, twx)

(***************************************************************************)
(* C12: for every vector x of length N the master operator returns         *)
(* M x = x - T (W x), so M 0 = 0, whether it was materialized (dense       *)
(* coupling operator) or is a callback (any other coupling operator).      *)
(***************************************************************************)
C12_MasterOperator ==
    ret.op = "master_matrix.matvec" =>
      /\ ret.exc = NoExc
      /\ ret.val = MasterProduct(ret.x)
      /\ ret.x = zeros(Len(ret.x)) => ret.val = ret.x

\* The conditions under which solve refuses a configuration.
ConfigurationErrors == {LUConfigError, SolverTypeError}

(***************************************************************************)
(* C13: a solve() that does not refuse the configuration succeeds, and     *)
(* after it every particle of the list holds a scattered_field that is an  *)
(* outgoing SWE with the particle's l_max and m_max, the particle's        *)
(* position as reference point, the z-bounds of the particle's layer as    *)
(* validity interval, and the slice index_block(i) of the solution vector  *)
(* as coefficients.                                                        *)
(***************************************************************************)
C13_SolveScattersSolution ==
    (ret.op = "solve" /\ ret.exc \notin ConfigurationErrors /\ ret.exc # NoAttributeNMax) =>
      /\ ret.exc = NoExc
      /\ \A j \in 1 .. Len(particle_list) :
            LET particle == particle_list[j]
                i_iS == layer_number(particle.position[3])
            IN  /\ particle.scattered_field # NoneObj
                /\ particle.scattered_field.cls = "SWE"
                /\ particle.scattered_field.type = "outgoing"
                /\ particle.scattered_field.l_max = particle.l_max
                /\ particle.scattered_field.m_max = particle.m_max
                /\ particle.scattered_field.reference_point = particle.position
                /\ particle.scattered_field.valid_between
                     = <<lower_zlimit(i_iS), upper_zlimit(i_iS)>>
                /\ particle.scattered_field.coefficients
                     = take(ret.did.b, index_block(j - 1))

(***************************************************************************)
(* C14: for every particle list, the empty one included, solve() with the  *)
(* 'LU' solver on a system whose coupling operator is not a dense matrix   *)
(* fails with the configuration error, computes and caches no              *)
(* factorization and assigns no scattered_field; solve() with a solver     *)
(* type other than 'LU' and 'gmres' fails likewise.                        *)
(***************************************************************************)
C14_SolveRefusesConfiguration ==
    ret.op = "solve" =>
      LET untouched ==
            /\ ~ret.did.factorized
            /\ "LU_piv" \notin DOMAIN linear_system.master_matrix
            /\ \A j \in 1 .. Len(particle_list) :
                  particle_list[j].scattered_field = NoneObj
      IN  /\ (/\ linear_system.solver_type = "LU"
              /\ linear_system.coupling_matrix.linear_operator.cls # "MatrixLinearOperator")
               => (ret.exc = LUConfigError /\ untouched)
          /\ linear_system.solver_type \notin {"LU", "gmres"}
               => (ret.exc = SolverTypeError /\ untouched)

\* A step that is a call of solve() on a system with the direct solver that
\* reaches the solver: a non-empty list and a dense master matrix.
DirectSolveStep ==
    /\ linear_system # NoneObj
    /\ linear_system.solver_type = "LU"
    /\ linear_system.master_matrix.linear_operator.cls = "MatrixLinearOperator"
    /\ Len(particle_list) > 0
    /\ linear_system'.history.solve = linear_system.history.solve + 1

(***************************************************************************)
(* C15: on one LinearSystem with the direct solver the master matrix is    *)
(* factorized during the first solve() only.  The first solve() factorizes *)
(* and caches the factors; every later solve() finds them cached, does not *)
(* factorize again, leaves the cache as it is and solves its right-hand    *)
(* side with the cached factors.                                           *)
(***************************************************************************)
C15_FactorizedOnce ==
    [][DirectSolveStep =>
         /\ linear_system.history.solve = 0 =>
               /\ "LU_piv" \notin DOMAIN linear_system.master_matrix
               /\ ret'.did.factorized
               /\ linear_system'.master_matrix.LU_piv
                    = lu_factor(linear_system.master_matrix.linear_operator.A)
         /\ linear_system.history.solve > 0 =>
               /\ "LU_piv" \in DOMAIN linear_system.master_matrix
               /\ ~ret'.did.factorized
               /\ linear_system'.master_matrix.LU_piv = linear_system.master_matrix.LU_piv
               /\ ret'.did.lu_piv = linear_system.master_matrix.LU_piv
               /\ ret'.did.b = lu_solve(linear_system.master_matrix.LU_piv, ret'.did.rhs)
         /\ linear_system'.history.lu_factor = 1]_vars

\* The second solve() of a direct-solver system over two particles has run
\* and one factorization was computed.
C15_Witness ==
    /\ ret.op = "solve"
    /\ linear_system.solver_type = "LU"
    /\ Len(particle_list) = 2
    /\ linear_system.history.solve = 2
    /\ linear_system.history.lu_factor = 1
    /\ ret.cached_before /\ ~ret.did.factorized
    /\ ret.did.lu_piv = linear_system.master_matrix.LU_piv

\* I - T W from the T-matrices the particles hold now and the coupling values.
CurrentMasterMatrix ==
    matrix_sub(eye(SystemMatrix_shape[1]),
               apply_t_matrix_matmat(dense_coupling_matrix(SystemMatrix_shape[1])))

(***************************************************************************)
(* C16: the cached LU factorization is invalidated whenever a particle's   *)
(* T-matrix changes.  After any sequence of solve() calls and replacements *)
(* of a particle's t_matrix, the factors a direct solve used are factors   *)
(* of I - T W for the T-matrices the particles hold at that solve, the     *)
(* same from which its right-hand side was computed.                       *)
(***************************************************************************)
C16_FactorizationIsCurrent ==
    (ret.op = "solve" /\ ret.did.lu_piv # None) =>
      /\ ret.did.rhs = right_hand_side(linear_system.t_matrix)
      /\ ret.did.lu_piv = lu_factor(CurrentMasterMatrix)

(***************************************************************************)
(* C17: with the 'gmres' solver the master operator is never a dense       *)
(* matrix, whatever store_coupling_matrix is: what solve() hands to gmres  *)
(* is an operator that only applies M to a vector, and the initial guess   *)
(* it passes is the right-hand side T a.                                   *)
(***************************************************************************)
C17_GmresOperatorNotMaterialized ==
    (ret.op = "solve" /\ ret.did.gmres_A # None) =>
      /\ ret.did.gmres_A.cls # "MatrixLinearOperator"
      /\ "A" \notin DOMAIN ret.did.gmres_A
      /\ ret.did.gmres_x0 = ret.did.rhs
      /\ ret.did.rhs = right_hand_side(linear_system.t_matrix)

(***************************************************************************)
(* C18: every CouplingMatrix whose construction succeeded, whatever        *)
(* store_matrix and lookup_resolution were, has a linear operator that     *)
(* applied to a vector of length N returns a vector of length N: a         *)
(* combination of options that cannot be served has failed at              *)
(* construction and does not fail at the application.                      *)
(***************************************************************************)
C18_CouplingOperatorApplies ==
    ret.op = "coupling_matrix.matvec" =>
      /\ Len(ret.x) = linear_system.coupling_matrix.shape[1]
      /\ ret.exc = NoExc
      /\ Len(ret.val) = Len(ret.x)

(***************************************************************************)
(* C19: constructing the CouplingMatrix with a lookup resolution for       *)
(* particles that do not all have the same z-coordinate fails with the     *)
(* explicit condition '3D lookup not yet implemented', before a lookup     *)
(* table is computed and before an operator is created; for particles that *)
(* all have the same z-coordinate this failure does not occur.             *)
(***************************************************************************)
C19_LookupNeedsCoplanarParticles ==
    (ret.op = "LinearSystem" /\ args.coupling_matrix_lookup_resolution # None) =>
      LET coplanar == \A i, j \in 1 .. Len(particle_list) :
                         particle_list[i].position[3] = particle_list[j].position[3]
      IN  /\ ~coplanar =>
                /\ ret.exc = Lookup3DError
                /\ linear_system = NoneObj
                /\ "lookup" \notin DOMAIN ret.coupling_matrix
                /\ "buckets" \notin DOMAIN ret.coupling_matrix
                /\ "linear_operator" \notin DOMAIN ret.coupling_matrix
          /\ coplanar => ret.exc # Lookup3DError
          /\ (coplanar /\ particle_list # <<>>) => "lookup" \in DOMAIN ret.coupling_matrix

\* The construction with a lookup resolution was refused for two particles
\* at different heights.
C19_Witness ==
    /\ ret.op = "LinearSystem" /\ args.coupling_matrix_lookup_resolution # None
    /\ Len(particle_list) = 2
    /\ particle_list[1].position[3] # particle_list[2].position[3]
    /\ ret.exc = Lookup3DError

(***************************************************************************)
(* C20: when every coupling block is zero, a solve() with the direct or    *)
(* the iterative solver that does not refuse the configuration gives each  *)
(* particle scattered coefficients that are exactly the particle's         *)
(* T-matrix applied to its own initial-field coefficients.                 *)
(***************************************************************************)
C20_ZeroCouplingSolve ==
    (/\ ret.op = "solve"
     /\ args.coupling = zeros2(SystemMatrix_shape[1])
     /\ linear_system.solver_type \in {"LU", "gmres"}
     /\ ret.exc \notin ConfigurationErrors /\ ret.exc # NoAttributeNMax) =>
      /\ ret.exc = NoExc
      /\ \A j \in 1 .. Len(particle_list) :
            /\ particle_list[j].scattered_field # NoneObj
            /\ particle_list[j].scattered_field.coefficients
                 = dot(particle_list[j].t_matrix,
                       particle_list[j].initial_field.coefficients)

(***************************************************************************)
(* Translation operators and vector wave functions of field_expansion.py.  *)
(*                                                                         *)
(* The special functions (smuthi.spherical_functions, sympy's Wigner       *)
(* symbols) are not part of the code at hand: integers stand for their     *)
(* values, different for different arguments, so that a sum shows which    *)
(* table entries and which coefficients went into it.  A table supplied by *)
(* the caller is a record of its entries and of the kind of number they    *)
(* are: "numpy" (numpy scalars or arrays) or "python" (float, complex).    *)
(***************************************************************************)
TupleConcatError == "TypeError: can only concatenate tuple (not \"complex\") to tuple"

\* sf.spherical_hankel(n, k * dd), sf.spherical_bessel(n, k * dd),
\* sf.legendre_normalized(ct, st, l_max)[0][l][m] and np.exp(1j * dm * phid).
spherical_hankel(n) == 20 + 3 * n
spherical_bessel(n) == 1 + 2 * n
legendre_normalized(l, m) == IF m > l THEN 0 ELSE 1 + l + 3 * m
exp_i_phi(dm) == 7 + dm

\* ab5_coefficients(l1, m1, l2, m2, p): <<a5, b5>>
ab5_coefficients(l1, m1, l2, m2, p) ==
    <<1 + ((l1 + 2 * m1 + 3 * l2 + 5 * m2 + 7 * p) % 4),
      5 + ((2 * l1 + m1 + l2 + 3 * m2 + p) % 3)>>

\* The tables as the translation operators compute them when the caller
\* supplies none: lists of numpy values.
default_table(f, n) == [kind |-> "numpy", entries |-> [i \in 0 .. n |-> f[i]]]
default_legendre(n) ==
    [kind |-> "numpy",
     entries |-> [l \in 0 .. n |-> [m \in 0 .. n |-> legendre_normalized(l, m)]]]

\* The kind of a5 * table[ld] * legendre[ld][|m1 - m2|], a5 being a Python
\* complex: a numpy value as soon as one factor is one.
product_kind(table, legendre) ==
    IF table.kind = "numpy" \/ legendre.kind = "numpy" THEN "numpy" ELSE "python"

\* What a translation operator hands back: one number (shape ()), or a numpy
\* array of numbers (shape (n,)).
Scalar(x) == [shape |-> <<>>, entries |-> <<x>>]
NdArray(s) == [shape |-> <<Len(s)>>, entries |-> s]

\* The terms of the sum over ld = |l1 - l2| .. l1 + l2, in loop order.
translation_terms(tau1, l1, m1, tau2, l2, m2, table, legendre) ==
    array([j \in 1 .. (l1 + l2 - abs(l1 - l2) + 1) |->
             LET ld == abs(l1 - l2) + j - 1
                 ab5 == ab5_coefficients(l1, m1, l2, m2, ld)
             IN  (IF tau1 = tau2 THEN ab5[1] ELSE ab5[2])
                   * table.entries[ld] * legendre.entries[ld][abs(m1 - m2)]],
          l1 + l2 - abs(l1 - l2) + 1)

\* translation_coefficients_svwf(tau1, l1, m1, tau2, l2, m2, k, d,
\*                               sph_hankel, legendre, exp_immphi):
\* None, or a table, for each of the last three.
translation_coefficients_svwf(tau1, l1, m1, tau2, l2, m2, sph_hankel, legendre, exp_immphi) ==
    LET eimph == IF exp_immphi = None THEN exp_i_phi(m1 - m2)
                 ELSE exp_immphi.entries[m1][m2]
        table == IF sph_hankel = None
                 THEN default_table([n \in 0 .. (l1 + l2) |-> spherical_hankel(n)], l1 + l2)
                 ELSE sph_hankel
        leg == IF legendre = None THEN default_legendre(l1 + l2) ELSE legendre
        A == sum(translation_terms(tau1, l1, m1, tau2, l2, m2, table, leg))
    IN  Outcome(NoExc, Scalar(eimph * A), <<>>)

\* translation_coefficients_svwf_out_to_out: the same statements with the
\* Bessel table, but A starts as the tuple (complex(0), complex(0)).
\* "A += x" on a tuple is A = A + x: with a Python number x it raises; with a
\* numpy value x, numpy's reflected addition makes an array of the tuple and
\* adds x to both entries.
translation_coefficients_svwf_out_to_out(tau1, l1, m1, tau2, l2, m2, sph_bessel, legendre, exp_immphi) ==
    LET eimph == IF exp_immphi = None THEN exp_i_phi(m1 - m2)
                 ELSE exp_immphi.entries[m1][m2]
        table == IF sph_bessel = None
                 THEN default_table([n \in 0 .. (l1 + l2) |-> spherical_bessel(n)], l1 + l2)
                 ELSE sph_bessel
        leg == IF legendre = None THEN default_legendre(l1 + l2) ELSE legendre
        terms == translation_terms(tau1, l1, m1, tau2, l2, m2, table, leg)
        A == <<0 + sum(terms), 0 + sum(terms)>>
    IN  IF product_kind(table, leg) = "python"
        THEN Outcome(TupleConcatError, NoneObj, <<>>)
        ELSE Outcome(NoExc, NdArray(<<eimph * A[1], eimph * A[2]>>), <<>>)

(***************************************************************************)
(* Vector wave functions and field evaluation: which inputs they refuse.   *)
(* The field values themselves are not modelled (Computed).                *)
(***************************************************************************)
PvwfPolError == "ValueError: Polarization must be 0 (TE) or 1 (TM)"
SvwfNuError == "ValueError: nu must be 1 (regular SVWF) or 3 (outgoing SVWF)"
SvwfTauError == "ValueError: tau must be 0 (spherical TE) or 1 (spherical TM)"
VwfPolError == "ValueError: pol must be 0 (TE) or 1 (TM)"
PweTypeError == "ValueError: pwe type undefined"
UnboundNx == "UnboundLocalError: local variable 'Nx' referenced before assignment"

\* plane_vector_wave_function(x, y, z, kp, alpha, kz, pol)
plane_vector_wave_function(pol) ==
    IF pol = 0 \/ pol = 1 THEN Outcome(NoExc, <<Computed, Computed, Computed>>, <<>>)
    ELSE Outcome(PvwfPolError, NoneObj, <<>>)

\* spherical_vector_wave_function(x, y, z, k, nu, tau, l, m)
spherical_vector_wave_function(nu, tau, l, m) ==
    IF nu # 1 /\ nu # 3 THEN Outcome(SvwfNuError, NoneObj, <<>>)
    ELSE IF tau = 0 \/ tau = 1 THEN Outcome(NoExc, <<Computed, Computed, Computed>>, <<>>)
    ELSE Outcome(SvwfTauError, NoneObj, <<>>)

\* transformation_coefficients_VWF(tau, l, m, pol, kp, kz, dagger): the
\* value is prefac * sphfun, with sphfun chosen by "tau == pol".
transformation_coefficients_VWF(tau, l, m, pol, dagger) ==
    LET sphfun == IF tau = pol THEN "taulm" ELSE "m * pilm"
    IN  IF pol = 0 \/ pol = 1
        THEN Outcome(NoExc, [prefac |-> <<l, pol, dagger>>, sphfun |-> sphfun], <<>>)
        ELSE Outcome(VwfPolError, NoneObj, <<>>)

\* SphericalWaveExpansion.electric_field(x, y, z): the first pass of the
\* loops (there is one, l_max being at least 1) reaches "ex += b * Nx".
swe_electric_field(self) ==
    IF conversion_loop(self.l_max, self.m_max) = {}
    THEN Outcome(NoExc, <<0, 0, 0>>, <<>>)
    ELSE IF self.type = "regular"
    THEN LET N == spherical_vector_wave_function(1, 0, 1, 0)
         IN  IF N.exc # NoExc THEN N ELSE Outcome(NoExc, <<Computed, Computed, Computed>>, <<>>)
    ELSE IF self.type = "outgoing"
    THEN LET N == spherical_vector_wave_function(3, 0, 1, 0)
         IN  IF N.exc # NoExc THEN N ELSE Outcome(NoExc, <<Computed, Computed, Computed>>, <<>>)
    ELSE Outcome(UnboundNx, NoneObj, <<>>)

\* PlaneWaveExpansion.k_z() and k_z_grid()
pwe_k_z(self) ==
    IF self.type = "upgoing" THEN Outcome(NoExc, "coord.k_z", <<>>)
    ELSE IF self.type = "downgoing" THEN Outcome(NoExc, "-coord.k_z", <<>>)
    ELSE Outcome(PweTypeError, NoneObj, <<>>)
pwe_k_z_grid(self) ==
    IF self.type = "upgoing" THEN Outcome(NoExc, "coord.k_z", <<>>)
    ELSE IF self.type = "downgoing" THEN Outcome(NoExc, "-coord.k_z", <<>>)
    ELSE Outcome(PweTypeError, NoneObj, <<>>)

\* PlaneWaveExpansion.electric_field(x, y, z): line 236 calls k_z_grid.
pwe_electric_field(self) ==
    LET kz == pwe_k_z_grid(self)
    IN  IF kz.exc # NoExc THEN kz
        ELSE Outcome(NoExc, <<Computed, Computed, Computed>>, <<>>)

(***************************************************************************)
(* SpecCalls: one call of a translation operator, of a vector wave         *)
(* function or of a field evaluation, on arguments inside and outside the  *)
(* enumerations.                                                           *)
(***************************************************************************)
MaxCallLmax == 2        \* SpecCalls: multipole degrees range over 1 .. MaxCallLmax

\* Polarization indices 0, 1 and one that is none; nu likewise.
PolValues == 0 .. 2
NuValues == {1, 2, 3}
CallTriples ==
    {t \in PolValues \X (1 .. MaxCallLmax) \X ((-MaxCallLmax) .. MaxCallLmax) :
        abs(t[3]) <= t[2]}

\* Tables a caller supplies: other values than the computed ones.
SuppliedBessel(kind) ==
    [kind |-> kind, entries |-> [n \in 0 .. (2 * MaxCallLmax) |-> 2 + 5 * n]]
SuppliedLegendre ==
    [kind |-> "python",
     entries |-> [l \in 0 .. (2 * MaxCallLmax) |->
                    [m \in 0 .. (2 * MaxCallLmax) |-> 3 + 2 * l + m]]]
SuppliedPhase ==
    [kind |-> "python",
     entries |-> [m1 \in (-MaxCallLmax) .. MaxCallLmax |->
                    [m2 \in (-MaxCallLmax) .. MaxCallLmax |-> 11 + m1 - m2]]]

TranslationArgs ==
    {[family |-> "translation", one |-> t1, two |-> t2,
      table |-> tb, legendre |-> lg, exp_immphi |-> ph] :
        t1 \in CallTriples, t2 \in CallTriples,
        tb \in {None, SuppliedBessel("numpy"), SuppliedBessel("python")},
        lg \in {None, SuppliedLegendre}, ph \in {None, SuppliedPhase}}
WaveArgs ==
    {[family |-> "wave", tau |-> t[1], l |-> t[2], m |-> t[3], pol |-> pol, nu |-> nu,
      dagger |-> dagger] :
        t \in CallTriples, pol \in PolValues, nu \in NuValues, dagger \in BOOLEAN}
FieldArgs ==
    {[family |-> "field",
      self |-> SphericalWaveExpansion(1, l, None, type, RefPoint(0), None)] :
        l \in 1 .. MaxCallLmax, type \in SweTypes \cup {"incoming", "upgoing"}}
    \cup
    {[family |-> "field",
      self |-> PlaneWaveExpansion(1, [array |-> <<1>>], [array |-> <<0>>], type,
                                  RefPoint(0), <<0, 1>>)] :
        type \in PweTypes \cup {"outgoing", "sideways"}}

InitCalls ==
    /\ args \in TranslationArgs \cup WaveArgs \cup FieldArgs
    /\ ret = [op |-> "none"]
    /\ linear_system = NoneObj
    /\ particle_list = <<>> /\ shape = <<>>
    /\ IndexIdle /\ ExpIdle

CallUnchanged ==
    UNCHANGED <<args, linear_system, particle_list, shape, cutoffs, triple, visited,
                opA, opB, opC, result>>

Returned(op, out) == [op |-> op, exc |-> out.exc, val |-> out.val]

TranslationSvwf ==
    /\ ret.op = "none" /\ args.family = "translation"
    /\ ret' = Returned("translation_coefficients_svwf",
                       translation_coefficients_svwf(
                           args.one[1], args.one[2], args.one[3],
                           args.two[1], args.two[2], args.two[3],
                           args.table, args.legendre, args.exp_immphi))
    /\ CallUnchanged

TranslationSvwfOutToOut ==
    /\ ret.op = "none" /\ args.family = "translation"
    /\ ret' = Returned("translation_coefficients_svwf_out_to_out",
                       translation_coefficients_svwf_out_to_out(
                           args.one[1], args.one[2], args.one[3],
                           args.two[1], args.two[2], args.two[3],
                           args.table, args.legendre, args.exp_immphi))
    /\ CallUnchanged

PlaneVectorWaveFunction ==
    /\ ret.op = "none" /\ args.family = "wave"
    /\ ret' = Returned("plane_vector_wave_function", plane_vector_wave_function(args.pol))
    /\ CallUnchanged

SphericalVectorWaveFunction ==
    /\ ret.op = "none" /\ args.family = "wave"
    /\ ret' = Returned("spherical_vector_wave_function",
                       spherical_vector_wave_function(args.nu, args.tau, args.l, args.m))
    /\ CallUnchanged

TransformationCoefficientsVWF ==
    /\ ret.op = "none" /\ args.family = "wave"
    /\ ret' = Returned("transformation_coefficients_VWF",
                       transformation_coefficients_VWF(args.tau, args.l, args.m, args.pol,
                                                       args.dagger))
    /\ CallUnchanged

SweElectricField ==
    /\ ret.op = "none" /\ args.family = "field" /\ args.self.cls = "SWE"
    /\ ret' = Returned("swe.electric_field", swe_electric_field(args.self))
    /\ CallUnchanged

PweKz ==
    /\ ret.op = "none" /\ args.family = "field" /\ args.self.cls = "PWE"
    /\ ret' = Returned("pwe.k_z", pwe_k_z(args.self))
    /\ CallUnchanged

PweKzGrid ==
    /\ ret.op = "none" /\ args.family = "field" /\ args.self.cls = "PWE"
    /\ ret' = Returned("pwe.k_z_grid", pwe_k_z_grid(args.self))
    /\ CallUnchanged

PweElectricField ==
    /\ ret.op = "none" /\ args.family = "field" /\ args.self.cls = "PWE"
    /\ ret' = Returned("pwe.electric_field", pwe_electric_field(args.self))
    /\ CallUnchanged

NextCalls ==
    \/ TranslationSvwf \/ TranslationSvwfOutToOut
    \/ PlaneVectorWaveFunction \/ SphericalVectorWaveFunction
    \/ TransformationCoefficientsVWF
    \/ SweElectricField \/ PweKz \/ PweKzGrid \/ PweElectricField

SpecCalls == InitCalls /\ [][NextCalls]_vars

\* The Bessel table of a call: the caller's, or the computed one.
BesselTableOf(a) ==
    IF a.table = None
    THEN default_table([n \in 0 .. (a.one[2] + a.two[2]) |-> spherical_bessel(n)],
                       a.one[2] + a.two[2])
    ELSE a.table

(***************************************************************************)
(* C21: for all valid (tau1, l1, m1, tau2, l2, m2),                        *)
(* translation_coefficients_svwf_out_to_out returns one coefficient: the   *)
(* phase factor times the sum over p = |l1 - l2| .. l1 + l2 of             *)
(* (a5 if tau1 = tau2, else b5) * bessel[p] * legendre[p][|m1 - m2|],      *)
(* which is what translation_coefficients_svwf returns when it is given    *)
(* the Bessel table as its Hankel table; also with tables and phase factor *)
(* supplied by the caller.                                                 *)
(***************************************************************************)
C21_OutToOutCoefficient ==
    (/\ ret.op = "translation_coefficients_svwf_out_to_out"
     /\ args.one[1] \in {0, 1} /\ args.two[1] \in {0, 1}) =>
      /\ ret.exc = NoExc
      /\ ret.val = translation_coefficients_svwf(
                       args.one[1], args.one[2], args.one[3],
                       args.two[1], args.two[2], args.two[3],
                       BesselTableOf(args), args.legendre, args.exp_immphi).val


\* The value a call got for an enumerated argument lies outside the
\* enumeration.
OutsideEnumeration ==
    \/ /\ ret.op = "plane_vector_wave_function"
       /\ args.pol \notin {0, 1}
    \/ /\ ret.op = "spherical_vector_wave_function"
       /\ (args.tau \notin {0, 1} \/ args.nu \notin {1, 3})
    \/ /\ ret.op = "transformation_coefficients_VWF"
       /\ (args.tau \notin {0, 1} \/ args.pol \notin {0, 1})
    \/ /\ ret.op \in {"translation_coefficients_svwf",
                      "translation_coefficients_svwf_out_to_out"}
       /\ (args.one[1] \notin {0, 1} \/ args.two[1] \notin {0, 1})
    \/ /\ ret.op = "swe.electric_field"
       /\ args.self.type \notin {"regular", "outgoing"}
    \/ /\ ret.op \in {"pwe.k_z", "pwe.k_z_grid", "pwe.electric_field"}
       /\ args.self.type \notin {"upgoing", "downgoing"}

(***************************************************************************)
(* C22: every operation that takes a polarization index or a wave-kind /   *)
(* direction tag fails when the value is outside its enumeration (pol, tau *)
(* outside {0, 1}; nu outside {1, 3}; an SWE type outside {regular,        *)
(* outgoing}; a PWE type outside {upgoing, downgoing}); none of them       *)
(* returns a value for such an input.                                      *)
(***************************************************************************)
C22_OutsideEnumerationFails == OutsideEnumeration => ret.exc # NoExc


(***************************************************************************)
(* The parameter-selection driver                                          *)
(* (smuthi/utility/automatic_parameter_selection.py).                      *)
(*                                                                         *)
(* A simulation is the record of what the driver changes: the particles'   *)
(* cutoffs and the contour settings neff_max and neff_resolution.  neff    *)
(* values are counted in units of neff_max_increment, neff_step in units   *)
(* of the finest step the iteration can reach, so that the increments and  *)
(* the halvings are exact.  A detector value is a positive integer; a      *)
(* value that may be None is None or <<value>>.  A tolerance is the        *)
(* rational num / den.                                                     *)
(***************************************************************************)
MaxIter == 3            \* SpecDriver: max_iter ranges over 1 .. MaxIter
MaxDrvParticles == 2    \* SpecDriver: the simulation has 1 .. MaxDrvParticles particles

NoneOperandError == "TypeError: unsupported operand type(s) for -: 'NoneType' and 'float'"

RECURSIVE pow2(_)
pow2(n) == IF n <= 0 THEN 1 ELSE 2 * pow2(n - 1)

RECURSIVE log2(_)
log2(n) == IF n <= 1 THEN 0 ELSE 1 + log2(n \div 2)

Float(v) == <<v>>

\* The truncation of the contour that the simulation builds when neff_max is
\* None (the last singularity plus neff_max_offset = 0), as
\* simulation.k_parallel[-1] / angular_frequency(vacuum_wavelength).
contour_neff_max == 2

\* The detectors: functions of the simulation's settings.  L and M are the
\* sums of the particles' l_max and m_max, X the truncation and S the step
\* of the contour.
\* "alternating" jumps between two values with every step of l_max, of
\* neff_max and of neff_step, so that no increment converges.
Detectors ==
    {"constant", "degree", "weak order", "strong order", "contour", "alternating"}
detector_value(detector, sim) ==
    LET L == sum([j \in 1 .. Len(sim.particle_list) |-> sim.particle_list[j].l_max])
        M == sum([j \in 1 .. Len(sim.particle_list) |-> sim.particle_list[j].m_max])
        X == IF sim.neff_max = None THEN contour_neff_max ELSE sim.neff_max[1]
        S == sim.neff_resolution
    IN  CASE detector = "constant" -> 1000
          [] detector = "degree" -> 640 + (640 \div pow2(min(L, 10)))
          [] detector = "weak order" -> 640 + (640 \div pow2(min(L, 10))) + M
          [] detector = "strong order" -> 100 + (640 \div pow2(min(L, 10))) + 100 * M
          [] detector = "contour" -> 1000 + (6400 \div pow2(2 * min(X, 10))) + 10 * S * S
          [] detector = "alternating" ->
                 IF (L + X + log2(S)) % 2 = 0 THEN 1000 ELSE 2000

\* evaluate(simulation, detector): simulation.run(), then the detector.
evaluate(simulation, detector) == detector_value(detector, simulation)

\* rel_diff = abs(new_value - current_value) / abs(current_value), compared
\* with the tolerance; both values are numbers here.
rel_diff_below(new_value, current_value, tolerance) ==
    abs(new_value - current_value) * tolerance.den < tolerance.num * abs(current_value)
rel_diff_above(new_value, current_value, tolerance) ==
    abs(new_value - current_value) * tolerance.den > tolerance.num * abs(current_value)
half(tolerance) == [num |-> tolerance.num, den |-> 2 * tolerance.den]

\* particle.l_max = l; particle.m_max = m, for particle i (from 1)
set_cutoffs(sim, i, l, m) ==
    [sim EXCEPT !.particle_list[i] = [l_max |-> l, m_max |-> m]]

\* What a driver function leaves: how it ended, what it returned, the
\* simulation as it is then, the number of trial evaluations of its loop,
\* and whether the loop ended by its convergence test.
Left(exc, val, sim, trials, converged) ==
    [exc |-> exc, val |-> val, sim |-> sim, trials |-> trials, converged |-> converged]

\* The loop of converge_l_max, k passes done.
RECURSIVE l_max_loop(_, _, _, _, _, _, _)
l_max_loop(k, i, sim, detector, tolerance, max_iter, current_value) ==
    IF k = max_iter THEN Left(NoExc, Float(current_value), sim, k, FALSE)
    ELSE LET old_l_max == sim.particle_list[i].l_max
             tried == set_cutoffs(sim, i, old_l_max + 1, old_l_max + 1)
             new_value == evaluate(tried, detector)
         IN  IF rel_diff_below(new_value, current_value, tolerance)
             THEN Left(NoExc, Float(current_value),
                       set_cutoffs(tried, i, old_l_max, old_l_max), k + 1, TRUE)
             ELSE l_max_loop(k + 1, i, tried, detector, tolerance, max_iter, new_value)

\* converge_l_max(particle, simulation, detector, tolerance, max_iter,
\*                current_value), the particle being number i of the list
converge_l_max(i, sim, detector, tolerance, max_iter, current_value) ==
    l_max_loop(0, i, sim, detector, tolerance, max_iter,
               IF current_value = None THEN evaluate(sim, detector) ELSE current_value[1])

\* The loop of converge_m_max: "for m_max in range(particle.m_max, -1, -1)",
\* the next value being m_max.  Falling off the loop returns None.
RECURSIVE m_max_loop(_, _, _, _, _, _, _)
m_max_loop(m_max, i, sim, detector, tolerance, current_value, trials) ==
    IF m_max < 0 THEN Left(NoExc, None, sim, trials, FALSE)
    ELSE LET old_m_max == sim.particle_list[i].m_max
             tried == set_cutoffs(sim, i, sim.particle_list[i].l_max, m_max)
             new_value == evaluate(tried, detector)
         IN  IF rel_diff_above(new_value, current_value, tolerance)
             THEN Left(NoExc, Float(current_value),
                       set_cutoffs(tried, i, sim.particle_list[i].l_max, old_m_max),
                       trials + 1, TRUE)
             ELSE m_max_loop(m_max - 1, i, tried, detector, tolerance, new_value,
                             trials + 1)

\* converge_m_max(particle, simulation, detector, tolerance, current_value)
converge_m_max(i, sim, detector, tolerance, current_value) ==
    m_max_loop(sim.particle_list[i].m_max, i, sim, detector, tolerance,
               IF current_value = None THEN evaluate(sim, detector) ELSE current_value[1],
               0)

\* converge_multipole_cutoff(simulation, detector, tolerance, max_iter,
\*                           current_value): particle i and those after it.
\* trials counts the particles handled.
RECURSIVE multipole_loop(_, _, _, _, _, _)
multipole_loop(i, sim, detector, tolerance, max_iter, current_value) ==
    IF i > Len(sim.particle_list) THEN Left(NoExc, current_value, sim, i - 1, FALSE)
    ELSE LET l == converge_l_max(i, sim, detector, tolerance, max_iter, current_value)
             m == converge_m_max(i, l.sim, detector, tolerance, l.val)
         IN  multipole_loop(i + 1, m.sim, detector, tolerance, max_iter, m.val)
converge_multipole_cutoff(sim, detector, tolerance, max_iter, current_value) ==
    multipole_loop(1, sim, detector, tolerance, max_iter, current_value)

\* update_contour(simulation, neff_imag, neff_max, neff_max_offset, neff_step)
update_contour(sim, neff_max, neff_step) ==
    [sim EXCEPT !.neff_max = neff_max, !.neff_resolution = neff_step]


\* One use of a value that may be None in "abs(new_value - current_value)".
is_number(value) == value # None

\* The loop of converge_neff_max, k passes done.  The message of the
\* break-off formats neff_max with "%i"; neff_max comes from the complex
\* array simulation.k_parallel, and whether "%i" takes it depends on the
\* numpy at hand (format_ok).
RECURSIVE neff_max_loop(_, _, _, _, _, _, _, _, _, _)
neff_max_loop(k, sim, detector, tolerance, max_iter, neff_step, converge_lm, neff_max, current_value, format_ok) ==
    IF k = max_iter
    THEN IF format_ok THEN Left(NoExc, None, sim, k, FALSE)
         ELSE Left("TypeError: can't convert complex to int", None, sim, k, FALSE)
    ELSE LET contour == update_contour(sim, Float(neff_max + 1), neff_step)
             trial == IF converge_lm
                      THEN converge_multipole_cutoff(contour, detector, tolerance, max_iter,
                                                     current_value)
                      ELSE Left(NoExc, Float(evaluate(contour, detector)), contour, 0, FALSE)
         IN  IF ~is_number(trial.val) \/ ~is_number(current_value)
             THEN Left(NoneOperandError, None, trial.sim, k + 1, FALSE)
             ELSE IF rel_diff_below(trial.val[1], current_value[1], tolerance)
             THEN Left(NoExc, current_value,
                       update_contour(trial.sim, Float(neff_max), neff_step), k + 1, TRUE)
             ELSE neff_max_loop(k + 1, trial.sim, detector, tolerance, max_iter, neff_step,
                                converge_lm, neff_max + 1, trial.val, format_ok)

\* converge_neff_max(simulation, detector, tolerance, max_iter, neff_imag,
\*                   neff_step, neff_max_increment, converge_lm)
converge_neff_max(sim, detector, tolerance, max_iter, neff_step, converge_lm, format_ok) ==
    LET contour == update_contour(sim, None, neff_step)
        start == IF converge_lm
                 THEN converge_multipole_cutoff(contour, detector, half(tolerance), max_iter,
                                                None)
                 ELSE Left(NoExc, Float(evaluate(contour, detector)), contour, 0, FALSE)
    IN  neff_max_loop(0, start.sim, detector, tolerance, max_iter, neff_step, converge_lm,
                      contour_neff_max, start.val, format_ok)

\* A plausible slip: the halved step of the discarded trial is kept.
RECURSIVE neff_step_loop_keep_halved(_, _, _, _, _, _, _, _)
neff_step_loop_keep_halved(k, sim, detector, tolerance, max_iter, neff_max, neff_step, current_value) ==
    IF k = max_iter THEN Left(NoExc, None, sim, k, FALSE)
    ELSE LET tried == update_contour(sim, neff_max, neff_step \div 2)
             new_value == evaluate(tried, detector)
         IN  IF rel_diff_below(new_value, current_value, tolerance)
             THEN Left(NoExc, Float(current_value), tried, k + 1, TRUE)
             ELSE neff_step_loop_keep_halved(k + 1, tried, detector, tolerance, max_iter,
                                             neff_max, neff_step \div 2, new_value)

\* The loop of converge_neff_step, k passes done.
RECURSIVE neff_step_loop(_, _, _, _, _, _, _, _)
neff_step_loop(k, sim, detector, tolerance, max_iter, neff_max, neff_step, current_value) ==
    IF k = max_iter THEN Left(NoExc, None, sim, k, FALSE)
    ELSE LET tried == update_contour(sim, neff_max, neff_step \div 2)
             new_value == evaluate(tried, detector)
         IN  IF rel_diff_below(new_value, current_value, tolerance)
             THEN Left(NoExc, Float(current_value),
                       update_contour(tried, neff_max, neff_step), k + 1, TRUE)
             ELSE neff_step_loop(k + 1, tried, detector, tolerance, max_iter, neff_max,
                                 neff_step \div 2, new_value)

\* converge_neff_step(simulation, detector, tolerance, max_iter, neff_imag,
\*                    neff_max, neff_step)
converge_neff_step(sim, detector, tolerance, max_iter, neff_max, neff_step) ==
    LET contour == update_contour(sim, neff_max, neff_step)
    IN  neff_step_loop(0, contour, detector, tolerance, max_iter, neff_max, neff_step,
                       evaluate(contour, detector))

(***************************************************************************)
(* SpecDriver: a simulation, possibly with a SystemMatrix built for its    *)
(* particles, and one call of a function of the driver.  particle_list is  *)
(* simulation.particle_list; args holds the arguments of the call, the     *)
(* simulation's contour settings among them as they are now.               *)
(***************************************************************************)
DriverCutoffs == {<<1, 1>>, <<2, 1>>, <<2, 2>>}
DriverParticleLists ==
    UNION {[1 .. n -> {[l_max |-> c[1], m_max |-> c[2]] : c \in DriverCutoffs}] :
             n \in 1 .. MaxDrvParticles}
Tolerances == {[num |-> 1, den |-> 10], [num |-> 1, den |-> 100]}

\* The step the iteration of neff_step starts from: MaxIter halvings are exact.
start_neff_step == pow2(MaxIter)

\* The simulation object, as the variables hold it
Simulation ==
    [particle_list |-> particle_list, neff_max |-> args.neff_max,
     neff_resolution |-> args.neff_resolution]

InitDriver ==
    /\ particle_list \in DriverParticleLists
    /\ \E detector \in Detectors, tolerance \in Tolerances, max_iter \in 1 .. MaxIter :
         args = [detector |-> detector, tolerance |-> tolerance, max_iter |-> max_iter,
                 neff_max |-> None, neff_resolution |-> start_neff_step,
                 initial |-> particle_list]
    /\ shape = <<>>
    /\ ret = [op |-> "none"]
    /\ linear_system = NoneObj
    /\ IndexIdle /\ ExpIdle

DriverUnchanged ==
    UNCHANGED <<shape, linear_system, cutoffs, triple, visited, opA, opB, opC, result>>

\* What a call of the driver leaves in the variables.
Leaves(op, i, left) ==
    /\ ret' = [op |-> op, i |-> i, exc |-> left.exc, val |-> left.val,
               trials |-> left.trials, converged |-> left.converged]
    /\ particle_list' = left.sim.particle_list
    /\ args' = [args EXCEPT !.neff_max = left.sim.neff_max,
                            !.neff_resolution = left.sim.neff_resolution]
    /\ DriverUnchanged

Uncalled == ret.op \in {"none", "SystemMatrix"}

ConvergeLMax ==
    /\ Uncalled
    /\ \E i \in 1 .. Len(particle_list) :
         Leaves("converge_l_max", i,
                converge_l_max(i, Simulation, args.detector, args.tolerance, args.max_iter,
                               None))

ConvergeMMax ==
    /\ Uncalled
    /\ \E i \in 1 .. Len(particle_list) :
         Leaves("converge_m_max", i,
                converge_m_max(i, Simulation, args.detector, args.tolerance, None))

ConvergeMultipoleCutoff ==
    /\ Uncalled
    /\ Leaves("converge_multipole_cutoff", 0,
              converge_multipole_cutoff(Simulation, args.detector, args.tolerance,
                                        args.max_iter, None))

ConvergeNeffMax ==
    /\ Uncalled
    /\ \E converge_lm \in BOOLEAN, format_ok \in BOOLEAN :
         Leaves(IF converge_lm THEN "converge_neff_max" ELSE "converge_neff_max, fixed lm", 0,
                converge_neff_max(Simulation, args.detector, args.tolerance, args.max_iter,
                                  args.neff_resolution, converge_lm, format_ok))

ConvergeNeffStep ==
    /\ Uncalled
    /\ Leaves("converge_neff_step", 0,
              converge_neff_step(Simulation, args.detector, args.tolerance, args.max_iter,
                                 args.neff_max, args.neff_resolution))

\* SystemMatrix(simulation.particle_list), held while the driver runs
HoldSystemMatrix == ret.op = "none" /\ NewSystemMatrix

NextDriver ==
    \/ HoldSystemMatrix
    \/ ConvergeLMax \/ ConvergeMMax \/ ConvergeMultipoleCutoff
    \/ ConvergeNeffMax \/ ConvergeNeffStep

SpecDriver == InitDriver /\ [][NextDriver]_vars


(***************************************************************************)
(* C24: converge_m_max and converge_multipole_cutoff return, on every path *)
(* (a decrement rejected, or all decrements down to m_max = 0 accepted),   *)
(* the detector value of the settings they leave on the particles, which   *)
(* the caller uses as current_value of its next comparison.                *)
(***************************************************************************)
C24_ReturnsValueOfSettingsLeft ==
    ret.op \in {"converge_m_max", "converge_multipole_cutoff"} =>
        /\ ret.exc = NoExc
        /\ ret.val = Float(evaluate(Simulation, args.detector))


(***************************************************************************)
(* C25: when converge_l_max returns, for every initial (l_max, m_max) of   *)
(* the particle with m_max <= l_max and every detector, the value returned *)
(* is the detector value of the simulation at the particle's final         *)
(* (l_max, m_max); on convergence the final l_max is the last value before *)
(* the increment whose relative change was below the tolerance, on         *)
(* break-off it is the initial l_max plus max_iter.                        *)
(***************************************************************************)
C25_LMaxReturnsValueOfFinalSettings ==
    ret.op = "converge_l_max" =>
        /\ ret.exc = NoExc
        /\ ret.val = Float(evaluate(Simulation, args.detector))
        /\ particle_list[ret.i].l_max =
               IF ret.converged THEN args.initial[ret.i].l_max + ret.trials - 1
               ELSE args.initial[ret.i].l_max + args.max_iter


\* The value of the contour parameter before the trial the loop ended with.
neff_max_before_trial(trials) == contour_neff_max + (trials - 1)
neff_step_before_trial(trials) == start_neff_step \div pow2(trials - 1)

(***************************************************************************)
(* C26: each convergence loop of the driver terminates, for every          *)
(* detector: converge_l_max, converge_neff_max and converge_neff_step run  *)
(* at most max_iter trials after the start value, converge_m_max runs at   *)
(* most (initial m_max + 1) trials; and when converge_neff_max or          *)
(* converge_neff_step accepts convergence, the contour parameter           *)
(* (neff_max, neff_step) is reset to the last value before the rejected    *)
(* trial before returning.                                                 *)
(***************************************************************************)
C26_LoopsTerminate ==
    /\ ret.op \in {"converge_l_max", "converge_neff_max", "converge_neff_max, fixed lm",
                   "converge_neff_step"}
         => ret.trials <= args.max_iter
    /\ ret.op = "converge_m_max" => ret.trials <= args.initial[ret.i].m_max + 1
    /\ (ret.op \in {"converge_neff_max", "converge_neff_max, fixed lm"} /\ ret.converged)
         => /\ ret.exc = NoExc
            /\ args.neff_max = Float(neff_max_before_trial(ret.trials))
    /\ (ret.op = "converge_neff_step" /\ ret.converged)
         => /\ ret.exc = NoExc
            /\ args.neff_resolution = neff_step_before_trial(ret.trials)

\* Reached: a contour loop that accepted convergence after a rejected trial
\* and left a parameter other than the start value.
C26_Witness ==
    /\ ret.op \in {"converge_neff_step", "converge_neff_max, fixed lm"}
    /\ ret.converged /\ ret.trials >= 2
    /\ args.neff_resolution <= start_neff_step
    /\ ret.op = "converge_neff_step" => args.neff_resolution < start_neff_step
    /\ ret.op = "converge_neff_max, fixed lm" => args.neff_max[1] > contour_neff_max


\* The coefficient positions a loop over the triples of (l_max, m_max)
\* touches in an expansion swe, and those pwe_to_swe_conversion has written.
positions_touched(swe, l_max, m_max) ==
    {multi_to_single_index(t[1], t[3], t[2], swe.l_max, swe.m_max) :
        t \in conversion_loop(l_max, m_max)}
positions_written(swe) ==
    {i \in 0 .. (Len(swe.coefficients) - 1) : swe.coefficients[i + 1] # 0}

(***************************************************************************)
(* C27: for every cutoff pair (l_max, m_max) with 0 <= m_max <= l_max, the *)
(* loops of SphericalWaveExpansion.electric_field, swe_to_pwe_conversion,  *)
(* pwe_to_swe_conversion and of the lookup-bucket construction visit       *)
(* exactly the valid triples (tau, l, m) of those cutoffs, each once, so   *)
(* that every coefficient position in [0, blocksize) is read or written    *)
(* exactly once and no position outside the block is touched.              *)
(***************************************************************************)
C27_LoopsCoverTheBlock ==
    /\ (result.op = "pwe_to_swe_conversion" /\ result.exc = NoExc) =>
         LET l_max == result.args.l_max
             m_max == result.args.m_max[1]
         IN  /\ conversion_loop(l_max, m_max) =
                    {<<t[1], t[3], t[2]>> : t \in ValidTriples(l_max, m_max)}
             /\ Cardinality(conversion_loop(l_max, m_max)) = blocksize(l_max, m_max)
             /\ positions_written(result.val) = 0 .. (blocksize(l_max, m_max) - 1)
             /\ Len(result.val.coefficients) = blocksize(l_max, m_max)
    /\ (result.op = "swe_to_pwe_conversion" /\ result.exc = NoExc) =>
         LET swe == result.args.swe
         IN  /\ Cardinality(conversion_loop(swe.l_max, swe.m_max)) =
                    blocksize(swe.l_max, swe.m_max)
             /\ positions_touched(swe, swe.l_max, swe.m_max) =
                    0 .. (Len(swe.coefficients) - 1)


\* Height z lies inside the validity interval (lower, upper), bounds included.
inside(z, valid_between) == valid_between[1] <= z /\ z <= valid_between[2]

(***************************************************************************)
(* C28: for two consistent plane wave expansions p and q, every height z   *)
(* of the reference point that pwe_to_swe_conversion accepts for the sum   *)
(* p + q lies inside the validity interval of p and inside that of q; when *)
(* the two intervals are disjoint, no height is accepted for the sum.      *)
(***************************************************************************)
C28_SumAcceptedInsideBoth ==
    (/\ result.op = "pwe_to_swe_conversion" /\ "expr" \in DOMAIN result
     /\ result.exc # DomainError)
    => /\ inside(result.args.reference_point[3], opA.valid_between)
       /\ inside(result.args.reference_point[3], opB.valid_between)


\* The CouplingMatrix of the linear system was built with a lookup and
\* without a stored matrix.
LookupAccelerated ==
    /\ linear_system # NoneObj
    /\ "buckets" \in DOMAIN linear_system.coupling_matrix
    /\ "linear_operator" \in DOMAIN linear_system.coupling_matrix

(***************************************************************************)
(* C29: for every coplanar particle list with arbitrary cutoffs of the     *)
(* particles (m_max <= l_max, possibly different between particles), after *)
(* construction of the lookup-accelerated CouplingMatrix every combined    *)
(* index n in [0, n_max) has a non-empty bucket of positions and particle  *)
(* numbers and a defined m_list[n], every position of [0, N) appears in    *)
(* exactly one bucket, and the operator applies to a vector of length N.   *)
(***************************************************************************)
C29_LookupBucketsCoverVector ==
    LookupAccelerated =>
      LET cm == linear_system.coupling_matrix
          N == cm.shape[1]
      IN  /\ \A n \in 1 .. cm.n_max : cm.buckets[n] # <<>>
          /\ \A p \in 0 .. (N - 1) :
               Cardinality({<<n, b>> \in (1 .. cm.n_max) \X (1 .. Len(particle_list)) :
                              /\ b <= Len(cm.buckets[n])
                              /\ cm.buckets[n][b].position = p}) = 1
          /\ ret.op = "coupling_matrix.matvec" => ret.exc = NoExc


\* A SystemMatrix was built for the simulation's particles and a function of
\* the driver has run since.
DriverRanOnHeldMatrix == shape # <<>> /\ ret.op \notin {"none", "SystemMatrix"}

(***************************************************************************)
(* C30: the block layout of a SystemMatrix stays consistent under the      *)
(* cutoff changes the convergence driver performs on the shared particle   *)
(* list: after the changes, the ranges returned by index_block still       *)
(* partition [0, shape[0]), and each still has the size of the particle's  *)
(* T-matrix and coefficient vector (those of the cutoffs at construction). *)
(***************************************************************************)
C30_LayoutSurvivesDriver ==
    DriverRanOnHeldMatrix =>
      LET n == Len(particle_list)
      IN  /\ index_block(0)[1] = 0
          /\ \A i \in 1 .. (n - 1) : index_block(i)[1] = index_block(i - 1)[2]
          /\ index_block(n - 1)[2] = shape[1]
          /\ \A i \in 0 .. (n - 1) :
               index_block(i)[2] - index_block(i)[1] =
                   blocksize(args.initial[i + 1].l_max, args.initial[i + 1].m_max)

====
